---- MODULE Spec2Model ----
(***************************************************************************)
(* TwoTable backend: the venue matching pipeline (app/services/matcher.py) *)
(* with the catalogue, the travel-time cache, the Redis result caches and  *)
(* the admin / booking writes that change what the pipeline reads.         *)
(*                                                                         *)
(* Representation                                                          *)
(*   - a date is its proleptic ordinal (date.toordinal()); weekday() is    *)
(*     (ordinal + 6) % 7, Monday = 0.                                      *)
(*   - a time of day is an integer hour.                                   *)
(*   - a real number the code holds as a float is an exact rational        *)
(*     <<numerator, denominator>> or a fixed-point integer:                *)
(*       similarity (cosine distance)      hundredths                      *)
(*       rounded response scores           ten-thousandths (round(x, 4))   *)
(*       travel minutes                    tenths (round(x, 1))            *)
(*       latitude                          1e-4 degree                     *)
(*       origin rounded to 3 decimals      1e-3 degree                     *)
(*       distances and radii               decimetres                      *)
(*   - all venues and origins lie on one meridian, where the haversine     *)
(*     formula reduces to R * |dlat| (radians).                            *)
(*   - a text is a sequence of one-character strings; a hash (md5) is      *)
(*     the hashed tuple itself (collisions are not modelled).              *)
(***************************************************************************)
EXTENDS Integers, Sequences, FiniteSets, TLC

VARIABLES
    venues,             \* table venues:            id -> row
    slots,              \* table venue_slots:       id -> row
    blackouts,          \* table venue_blackouts:   id -> row
    bookings,           \* table bookings:          id -> row
    venue_embeddings,   \* table venue_embeddings:  venue_id -> row
    intent_embeddings,  \* table intent_embeddings: sequence of log rows
    travel_time_cache,  \* table travel_time_cache: set of rows
    suggest_cache,      \* Redis namespace suggest_results: key -> value
    intent_vector_cache,\* Redis namespace intent_vectors: text -> vector
    time_bucket,        \* get_time_bucket() of the wall clock
    next_id,            \* the id sequences of the tables
    matches,            \* table matches:           id -> row
    available_venues_cache, \* Redis namespace available_venues: key -> value
    redis_up,           \* whether the Redis server answers
    inflight,           \* get_travel_time() calls that have started and not returned
    haversine_cache,    \* Redis namespace haversine: key -> list of venue ids
    settings,           \* app.core.config.settings: the provider names
    service,            \* "stopped", "running", or "failed" when the import of the app raised
    last,               \* the most recent operation and what it returned
    prev                \* what the operation before it returned

vars == <<venues, slots, blackouts, bookings, venue_embeddings, intent_embeddings,
          travel_time_cache, suggest_cache, intent_vector_cache, time_bucket, next_id,
          matches, available_venues_cache, redis_up, inflight, haversine_cache, settings,
          service, last, prev>>

\* Python None / SQL NULL in a numeric place: an integer outside every range of the model
None == 0 - 1000000

\* None in the place of a text or a vector
NoText == <<>>

\* None as a session id
NoSession == "none"

---------------------------------------------------------------------------
(* Bounds of the model *)

MaxSlotId == 2
MaxBlackoutId == 1
MaxLogRows == 2

\* the defaults of Settings for the three provider names
DefaultSettings ==
    [EMBEDDING_PROVIDER |-> "local", ROUTING_PROVIDER |-> "tomtom",
     GEOCODING_PROVIDER |-> "tomtom"]

---------------------------------------------------------------------------
(* Generic helpers *)

Abs(x) == IF x < 0 THEN -x ELSE x

Min(a, b) == IF a <= b THEN a ELSE b

Max(a, b) == IF a >= b THEN a ELSE b

\* a table or a dict without the entry id, and with the entry id set to row
Without(table, id) == [i \in DOMAIN table \ {id} |-> table[i]]

With(table, id, row) == [i \in DOMAIN table \cup {id} |-> IF i = id THEN row ELSE table[i]]

Range(seq) == {seq[i] : i \in DOMAIN seq}

RECURSIVE SortedSeq(_)
\* the elements of a set of integers in ascending order
SortedSeq(S) ==
    IF S = {} THEN <<>>
    ELSE LET m == CHOOSE x \in S : \A y \in S : x <= y
         IN  <<m>> \o SortedSeq(S \ {m})

Repeat(x, n) == [i \in 1..n |-> x]

RECURSIVE Concat(_)
\* the concatenation of a sequence of sequences
Concat(ss) == IF ss = <<>> THEN <<>> ELSE Head(ss) \o Concat(Tail(ss))

RECURSIVE FilterSeq(_, _)
\* [x for x in seq if x in keep]
FilterSeq(seq, keep) ==
    IF seq = <<>> THEN <<>>
    ELSE (IF Head(seq) \in keep THEN <<Head(seq)>> ELSE <<>>) \o FilterSeq(Tail(seq), keep)

\* the first occurrence of every element, in order
Distinct(seq) ==
    LET firsts == {i \in DOMAIN seq : \A j \in 1..(i - 1) : seq[j] # seq[i]}
        idx == SortedSeq(firsts)
    IN  [k \in 1..Len(idx) |-> seq[idx[k]]]

\* a < b, a = b, a <= b on rationals <<n, d>> with d > 0
RatLt(a, b) == a[1] * b[2] < b[1] * a[2]

RatEq(a, b) == a[1] * b[2] = b[1] * a[2]

RatLe(a, b) == a[1] * b[2] <= b[1] * a[2]

\* round(n / d, k) for n >= 0, d > 0, as an integer count of 10^-k (scale = 10^k),
\* ties to even as Python's round()
RoundScaled(n, d, scale) ==
    LET q == (n * scale) \div d
        r == (n * scale) % d
    IN  IF 2 * r < d THEN q
        ELSE IF 2 * r > d THEN q + 1
        ELSE IF q % 2 = 0 THEN q ELSE q + 1

Round4(x) == RoundScaled(x[1], x[2], 10000)

---------------------------------------------------------------------------
(* Texts *)

Lower(c) ==
    CASE c = "B" -> "b"
      [] c = "A" -> "a"
      [] c = "T" -> "t"
      [] c = "H" -> "h"
      [] OTHER -> c

\* SQL: text ILIKE '%pat%' (pat holds no wildcard)
Ilike(text, pat) ==
    \E i \in 0..(Len(text) - Len(pat)) :
        \A j \in 1..Len(pat) : Lower(text[i + j]) = Lower(pat[j])

---------------------------------------------------------------------------
(* Dates, times, request fields *)

\* datetime.combine(target_date, target_time).weekday()
Weekday(d) == (d + 6) % 7

\* str(date): the ISO text of a date, as stored in bookings.booked_date
DateStr(d) == <<"iso", d>>

Truthy(x) == x # None /\ x # 0

\* build_intent_text(): the parts that the code joins with ". "; free_text "" is <<>>
build_intent_text(stage, mood, energy, budget, city, free_text) ==
    <<stage, <<"Mood", mood>>, <<"Energy", energy>>, <<"Budget", budget>>, <<"City", city>>>>
        \o (IF free_text # <<>> THEN <<free_text>> ELSE <<>>)

IntentOf(req) ==
    build_intent_text(req.stage, req.mood, req.energy, req.budget, req.city, req.free_text)

\* round(x, 3) of a coordinate held in 1e-4 degree, in 1e-3 degree
Round3(x) == IF x >= 0 THEN RoundScaled(x, 10, 1) ELSE -RoundScaled(-x, 10, 1)

OrZero(x) == IF x = None THEN 0 ELSE x

\* _suggest_cache_key(): the md5 of the joined fields
suggest_cache_key(req) ==
    <<req.city, req.date, req.time,
      Round3(OrZero(req.origin_lat)), Round3(OrZero(req.origin_lng)),
      req.travel_mode, req.max_travel_minutes,
      req.stage, req.mood, req.energy, req.budget,
      req.free_text, req.top_n>>

---------------------------------------------------------------------------
(* Geo prefilter (app/api/v1/venues.py) *)

EarthRadiusKm == 6371

SafetyFactorTenths == 18

\* _SPEED_KM_PER_MIN.get(mode, 0.5), in metres per minute
SpeedMPerMin(mode) ==
    CASE mode = "walk" -> 83
      [] mode = "drive" -> 500
      [] mode = "transit" -> 400
      [] OTHER -> 500

\* variant of _max_radius_km() whose radius shrinks as the minutes grow
max_radius_shrinking(mode, max_minutes) ==
    SpeedMPerMin(mode) * (50 - max_minutes) * SafetyFactorTenths

\* _max_radius_km(), in decimetres: speed * minutes * 1.8
max_radius_dm(mode, max_minutes) == SpeedMPerMin(mode) * max_minutes * SafetyFactorTenths

\* _haversine_km() between two points of one meridian, in decimetres:
\* R * pi / 180 * |dlat|, pi = 355/113, latitudes in 1e-4 degree
haversine_dm(lat1, lat2) == (EarthRadiusKm * 355 * Abs(lat2 - lat1)) \div (113 * 180)

\* prefilter_by_distance(): the venues of the list with coordinates, within the radius
prefilter_by_distance(list, origin_lat, mode, max_travel_min) ==
    FilterSeq(list, {v \in Range(list) :
        /\ venues[v].lat # None
        /\ venues[v].lng # None
        /\ haversine_dm(origin_lat, venues[v].lat) <= max_radius_dm(mode, max_travel_min)})

---------------------------------------------------------------------------
(* Availability (the SQL layer and the blackout filter) *)

\* variant of the slot condition with the end of the window included
SlotContainsClosed(s, weekday, t) ==
    /\ s.is_active
    /\ s.weekday = weekday
    /\ s.start_time <= t
    /\ s.end_time >= t

\* VenueSlot.is_active, weekday == weekday, start_time <= target_time, end_time > target_time
SlotContains(s, weekday, t) ==
    /\ s.is_active
    /\ s.weekday = weekday
    /\ s.start_time <= t
    /\ s.end_time > t

\* ids of the active slots of venue v matching weekday and time
MatchingSlots(v, weekday, t) ==
    {i \in DOMAIN slots : slots[i].venue_id = v /\ SlotContains(slots[i], weekday, t)}

\* select(Venue).join(VenueSlot).where(...): one row per (venue, matching slot),
\* in id order
JoinVenueSlot(city, target_date, target_time) ==
    LET vs == SortedSeq(DOMAIN venues)
    IN  Concat([i \in 1..Len(vs) |->
            IF Ilike(venues[vs[i]].city, city) /\ venues[vs[i]].is_active
            THEN Repeat(vs[i], Cardinality(MatchingSlots(vs[i], Weekday(target_date), target_time)))
            ELSE <<>>])

\* variant of the SQL layer without .distinct()
SqlLayerWithoutDistinct(city, target_date, target_time) ==
    JoinVenueSlot(city, target_date, target_time)

\* .distinct(); result.scalars().all()
SqlLayer(city, target_date, target_time) ==
    Distinct(JoinVenueSlot(city, target_date, target_time))

\* variant of the blackout query that misses the first day of a blackout
BlackedOutAfterStart(target_date) ==
    {blackouts[i].venue_id : i \in {j \in DOMAIN blackouts :
        blackouts[j].start_date < target_date /\ blackouts[j].end_date >= target_date}}

\* select(VenueBlackout.venue_id).where(start_date <= d, end_date >= d)
BlackedOut(target_date) ==
    {blackouts[i].venue_id : i \in {j \in DOMAIN blackouts :
        blackouts[j].start_date <= target_date /\ blackouts[j].end_date >= target_date}}

\* venues = [v for v in venues if v.id not in blacked_out]
Available(city, target_date, target_time) ==
    LET list == SqlLayer(city, target_date, target_time)
    IN  FilterSeq(list, Range(list) \ BlackedOut(target_date))

---------------------------------------------------------------------------
(* Travel-time resolver (app/services/routing.py) *)

\* make_origin_hash(): sha256 of the coordinates rounded to 3 decimals
make_origin_hash(lat, lng) == <<Round3(lat), Round3(lng)>>

\* What the routing provider does with one request:
\*   ok          200 and a route with travelTimeInSeconds = seconds
\*   non200      a status other than 200
\*   missing_key 200 and JSON without routes[0].summary.travelTimeInSeconds
\*   not_json    200 and a body that is not JSON
\*   timeout     no response within the client's 10 s, or no connection
Answer(kind, seconds) == [kind |-> kind, seconds |-> seconds]

ProviderAnswers ==
    {Answer("ok", 600), Answer("ok", 2730), Answer("non200", 0), Answer("missing_key", 0),
     Answer("not_json", 0), Answer("timeout", 0)}

\* _fetch_tomtom(): minutes in tenths, None, or an exception leaving the function
\* (client.get() and resp.json() stand outside the try)
fetch_tomtom(answer) ==
    CASE answer.kind = "non200" -> [raised |-> FALSE, minutes |-> None]
      [] answer.kind = "not_json" -> [raised |-> TRUE, minutes |-> None]
      [] answer.kind = "timeout" -> [raised |-> TRUE, minutes |-> None]
      [] answer.kind = "missing_key" -> [raised |-> FALSE, minutes |-> None]
      [] OTHER -> [raised |-> FALSE, minutes |-> RoundScaled(answer.seconds, 60, 10)]

\* variant of the cache lookup that leaves the time bucket out of the key
CacheRowsOfAnyBucket(cache, origin_hash, venue_id, mode, bucket) ==
    {r \in cache : /\ r.origin_hash = origin_hash
                   /\ r.venue_id = venue_id
                   /\ r.mode = mode}

\* select(TravelTimeCache).where(origin_hash, venue_id, mode, time_bucket)
CacheRowsFor(cache, origin_hash, venue_id, mode, bucket) ==
    {r \in cache : /\ r.origin_hash = origin_hash
                   /\ r.venue_id = venue_id
                   /\ r.mode = mode
                   /\ r.time_bucket = bucket}

\* the names get_travel_time() knows; any other raises ValueError
RoutingProviders == {"tomtom", "openrouteservice", "mapbox"}

\* get_travel_time() against the table contents `cache`, the provider answering `answer`
get_travel_time(cache, origin_lat, origin_lng, venue_id, mode, answer) ==
    LET origin_hash == make_origin_hash(origin_lat, origin_lng)
        found == CacheRowsFor(cache, origin_hash, venue_id, mode, time_bucket)
        fresh == {r \in found : r.fresh}
    IN  IF fresh # {}
        THEN [raised |-> FALSE, minutes |-> (CHOOSE r \in fresh : TRUE).travel_minutes,
              cache |-> cache, called |-> FALSE]
        ELSE LET kept == cache \ found
                 f == IF settings.ROUTING_PROVIDER \in RoutingProviders
                      THEN fetch_tomtom(answer)
                      ELSE [raised |-> TRUE, minutes |-> None]
             IN  IF f.raised \/ f.minutes = None
                 THEN [raised |-> f.raised, minutes |-> None, cache |-> kept, called |-> TRUE]
                 ELSE [raised |-> FALSE, minutes |-> f.minutes,
                       cache |-> kept \cup {[origin_hash |-> origin_hash, venue_id |-> venue_id,
                                             mode |-> mode, time_bucket |-> time_bucket,
                                             travel_minutes |-> f.minutes, fresh |-> TRUE]},
                       called |-> TRUE]

HasOrigin(req) == req.origin_lat # None /\ req.origin_lng # None

\* the venues of `list` for which get_travel_time() would call the provider
NeedsProvider(list, req) ==
    {v \in Range(list) :
        /\ HasOrigin(req) /\ Truthy(venues[v].lat) /\ Truthy(venues[v].lng)
        /\ \A r \in CacheRowsFor(travel_time_cache,
                                 make_origin_hash(req.origin_lat, req.origin_lng),
                                 v, req.travel_mode, time_bucket) : ~r.fresh}

\* what the loop does with the answer g of get_travel_time() for venue v
Visit(acc, v, req, g) ==
    IF g.raised
    THEN [acc EXCEPT !.raised = TRUE, !.cache = g.cache, !.called = TRUE]
    ELSE [raised |-> FALSE,
          candidates |-> IF g.minutes = None \/ g.minutes > req.max_travel_minutes * 10
                         THEN acc.candidates
                         ELSE Append(acc.candidates,
                                     [venue_id |-> v, travel_minutes |-> g.minutes]),
          cache |-> g.cache,
          called |-> acc.called \/ g.called]

\* one pass of `for venue in venues`; an exception has ended the loop when acc.raised
TravelStep(acc, v, req, answers) ==
    IF acc.raised THEN acc
    ELSE IF HasOrigin(req) /\ Truthy(venues[v].lat) /\ Truthy(venues[v].lng)
    THEN Visit(acc, v, req,
               get_travel_time(acc.cache, req.origin_lat, req.origin_lng, v, req.travel_mode,
                               answers[v]))
    ELSE [acc EXCEPT !.candidates = Append(@, [venue_id |-> v, travel_minutes |-> None])]

RECURSIVE TravelLoop(_, _, _, _)
\* the loop over the venues: acc = [raised, candidates, cache, called]
TravelLoop(list, acc, req, answers) ==
    IF list = <<>> THEN acc
    ELSE TravelLoop(Tail(list), TravelStep(acc, Head(list), req, answers), req, answers)

\* the list that reaches the travel-time loop
GeoStage(avail, req) ==
    IF HasOrigin(req)
    THEN prefilter_by_distance(avail, req.origin_lat, req.travel_mode, req.max_travel_minutes)
    ELSE avail

---------------------------------------------------------------------------
(* Embedding similarity, load fairness, scoring (app/services/matcher.py) *)

NeutralSimilarity == 50

MaxLoadPenaltyTenths == 3

\* embedding_provider.embed(text): the vector of a text
Embed(text) == <<"vec", text>>

\* pgvector's cosine distance between a stored venue vector and an intent vector,
\* in hundredths; a venue vector is held as its distance to every intent vector
cosine_distance(embedding, intent_vector) == embedding[intent_vector]

\* find_similar_venues() with top_n = len(candidate ids): (venue_id, distance) rows
find_similar_venues(intent_vector, candidate_venue_ids) ==
    [v \in candidate_venue_ids \cap DOMAIN venue_embeddings |->
        cosine_distance(venue_embeddings[v].embedding, intent_vector)]

\* similarity_map as built in suggest_venues()
similarity_map(candidate_ids, intent_vector) ==
    LET ids == Range(candidate_ids)
        emb_count == Cardinality(ids \cap DOMAIN venue_embeddings)
    IN  IF emb_count = 0
        THEN [v \in ids |-> NeutralSimilarity]
        ELSE LET embedded_ids == ids \cap DOMAIN venue_embeddings
                 unembedded_ids == ids \ embedded_ids
                 found == find_similar_venues(intent_vector, embedded_ids)
             IN  [v \in unembedded_ids \cup DOMAIN found |->
                     IF v \in unembedded_ids THEN NeutralSimilarity ELSE found[v]]

\* similarity_map.get(vid, 0.5)
SimGet(map, vid) == IF vid \in DOMAIN map THEN map[vid] ELSE NeutralSimilarity

ActiveStatuses == {"confirmed", "pending"}

\* variant of the booking count that counts a booking whatever its status
CountBookedAnyStatus(slot_id, booked_date) ==
    Cardinality({b \in DOMAIN bookings :
        /\ bookings[b].slot_id = slot_id
        /\ bookings[b].booked_date = booked_date})

\* select(func.count(Booking.id)).where(slot_id, booked_date, status in (...))
CountBooked(slot_id, booked_date) ==
    Cardinality({b \in DOMAIN bookings :
        /\ bookings[b].slot_id = slot_id
        /\ bookings[b].booked_date = booked_date
        /\ bookings[b].status \in ActiveStatuses})

\* min(booked / max(max_tables_for_two, 1), 1.0) as a rational
LoadOf(booked, max_tables) ==
    LET cap == Max(max_tables, 1)
    IN  IF booked >= cap THEN <<1, 1>> ELSE <<booked, cap>>

\* _get_load_factors(): slot_of[v] is the row the LIMIT 1 slot query returned for v
get_load_factors(candidate_ids, target_date, slot_of) ==
    [v \in Range(candidate_ids) |->
        IF slot_of[v] = None THEN <<0, 1>>
        ELSE LoadOf(CountBooked(slot_of[v], DateStr(target_date)),
                    slots[slot_of[v]].max_tables_for_two)]

\* the rows a LIMIT 1 query without ORDER BY may return, per venue
SlotChoices(ids, target_date, target_time) ==
    LET rows(v) == LET m == MatchingSlots(v, Weekday(target_date), target_time)
                   IN  IF m = {} THEN {None} ELSE m
    IN  {f \in [ids -> UNION {rows(v) : v \in ids}] : \A v \in ids : f[v] \in rows(v)}

\* variant of the final score without the load penalty
final_score_unpenalised(similarity, load) == <<similarity * 10 * load[2], 1000 * load[2]>>

\* similarity * (1.0 + load * _MAX_LOAD_PENALTY), similarity in hundredths
final_score(similarity, load) ==
    <<similarity * (10 * load[2] + MaxLoadPenaltyTenths * load[1]), 1000 * load[2]>>

\* Python's order on (score, vid) tuples
TupleLe(a, b) ==
    \/ RatLt(a.score, b.score)
    \/ RatEq(a.score, b.score) /\ a.vid <= b.vid

RECURSIVE Sorted(_)
\* sorted(list of (score, vid))
Sorted(list) ==
    IF list = <<>> THEN <<>>
    ELSE LET i == CHOOSE k \in DOMAIN list : \A j \in DOMAIN list : TupleLe(list[k], list[j])
             rest == [k \in 1..(Len(list) - 1) |-> IF k < i THEN list[k] ELSE list[k + 1]]
         IN  <<list[i]>> \o Sorted(rest)

\* variant of the ranking that leaves out the candidates without an embedding row
ScoredEmbeddedOnly(candidate_ids, sims, loads) ==
    Sorted([i \in 1..Cardinality(Range(candidate_ids) \cap DOMAIN venue_embeddings) |->
        LET vid == SortedSeq(Range(candidate_ids) \cap DOMAIN venue_embeddings)[i]
        IN  [score |-> <<sims[vid] * (10 * loads[vid][2] + MaxLoadPenaltyTenths * loads[vid][1]),
                         1000 * loads[vid][2]>>,
             vid |-> vid]])

\* scored = sorted([(final score, vid) for vid in candidate_ids])
Scored(candidate_ids, sims, loads) ==
    Sorted([i \in DOMAIN candidate_ids |->
        [score |-> final_score(SimGet(sims, candidate_ids[i]), loads[candidate_ids[i]]),
         vid |-> candidate_ids[i]]])

\* scored[: top_n]
Top(scored, top_n) == SubSeq(scored, 1, Min(top_n, Len(scored)))

\* candidate_map[venue_id]: a dict built in list order keeps the last entry
CandidateOf(candidates, venue_id) ==
    candidates[CHOOSE i \in DOMAIN candidates :
        /\ candidates[i].venue_id = venue_id
        /\ \A j \in DOMAIN candidates : candidates[j].venue_id = venue_id => j <= i]

\* the VenueSuggestion rows built from top
Suggestions(top, candidates, sims, loads) ==
    [i \in DOMAIN top |->
        [venue_id |-> top[i].vid,
         travel_minutes |-> CandidateOf(candidates, top[i].vid).travel_minutes,
         similarity_score |-> Round4(<<SimGet(sims, top[i].vid), 100>>),
         load_factor |-> Round4(loads[top[i].vid]),
         final_score |-> Round4(top[i].score),
         source_text |-> IF top[i].vid \in DOMAIN venue_embeddings
                         THEN venue_embeddings[top[i].vid].source_text ELSE NoText]]

---------------------------------------------------------------------------
(* Redis caches (app/services/cache.py) *)

\* variant of RedisCache.get() that lets a failure of the store leave the method
RedisGetRaising(cache, key) ==
    IF ~redis_up THEN [raised |-> TRUE, hit |-> FALSE, value |-> NoText]
    ELSE IF key \in DOMAIN cache THEN [raised |-> FALSE, hit |-> TRUE, value |-> cache[key]]
    ELSE [raised |-> FALSE, hit |-> FALSE, value |-> NoText]

\* RedisCache.get(): the stored value, or None when the key is absent or the store
\* fails; the except clause lets no exception leave the method
RedisGet(cache, key) ==
    IF redis_up /\ key \in DOMAIN cache
    THEN [raised |-> FALSE, hit |-> TRUE, value |-> cache[key]]
    ELSE [raised |-> FALSE, hit |-> FALSE, value |-> NoText]

\* RedisCache.set(): the namespace afterwards; a failure of the store writes nothing
RedisSet(cache, key, value) == IF redis_up THEN With(cache, key, value) ELSE cache

\* variant of RedisCache.clear() that deletes no key
RedisClearNothing(cache) == cache

\* RedisCache.clear(): the namespace afterwards; a failure of the store deletes nothing
RedisClear(cache) == IF redis_up THEN <<>> ELSE cache

---------------------------------------------------------------------------
(* suggest_venues() and POST /venues/suggest *)

\* what an operation leaves in `last` when it is not a ranking
NoRun ==
    [op |-> "none", req |-> NoText, status |-> "ok", raised |-> "none", suggestions |-> <<>>,
     intent_text |-> <<>>, hit |-> FALSE, calls |-> {}, answers |-> <<>>, avail |-> <<>>,
     geo |-> <<>>, candidates |-> <<>>, sims |-> <<>>, loads |-> <<>>, scored |-> <<>>,
     slot_of |-> <<>>, travel_before |-> {}, log_failed |-> FALSE, logged |-> 0, http |-> 0,
     cleared |-> 0, up |-> TRUE]

\* the operation `run` has returned: it becomes `last`, the one before it `prev`
Record(run) ==
    /\ last' = [run EXCEPT !.up = redis_up]
    /\ prev' = [op |-> last.op, req |-> last.req, status |-> last.status,
                suggestions |-> last.suggestions, hit |-> last.hit, up |-> last.up]

\* _get_intent_vector(): the vector, whether the provider was called, the cache afterwards
get_intent_vector(intent_text, embed_ok) ==
    LET cached == RedisGet(intent_vector_cache, intent_text)
    IN  IF cached.raised
        THEN [raised |-> TRUE, vector |-> NoText, called |-> FALSE,
              cache |-> intent_vector_cache]
        ELSE IF cached.hit
        THEN [raised |-> FALSE, vector |-> cached.value, called |-> FALSE,
              cache |-> intent_vector_cache]
        ELSE IF ~embed_ok
        THEN [raised |-> TRUE, vector |-> NoText, called |-> TRUE,
              cache |-> intent_vector_cache]
        ELSE [raised |-> FALSE, vector |-> Embed(intent_text), called |-> TRUE,
              cache |-> RedisSet(intent_vector_cache, intent_text, Embed(intent_text))]

\* log_intent_embedding(): the table afterwards; a failed commit is rolled back
log_intent_embedding(session_id, intent_text, log_ok) ==
    IF log_ok
    THEN Append(intent_embeddings, [session_id |-> session_id, intent_text |-> intent_text])
    ELSE intent_embeddings

\* variant of the endpoint that answers an empty result like a matcher exception
suggest_http_empty_as_error(raised, suggestions) ==
    IF raised \/ suggestions = <<>> THEN 500 ELSE 200

\* suggest(): the HTTP status the endpoint answers with
suggest_http(raised, suggestions) ==
    IF raised THEN 500
    ELSE IF suggestions = <<>> THEN 404
    ELSE 200

\* suggest_venues() returns or raises and the endpoint answers: what the call leaves
Return(run, travel, vectors, log, results) ==
    /\ Len(log) <= MaxLogRows
    /\ Record([run EXCEPT !.http = suggest_http(run.status = "error", run.suggestions),
                          !.logged = Len(log) - Len(intent_embeddings)])
    /\ travel_time_cache' = travel
    /\ intent_vector_cache' = vectors
    /\ intent_embeddings' = log
    /\ suggest_cache' = results
    /\ UNCHANGED <<venues, slots, blackouts, bookings, venue_embeddings, time_bucket, next_id,
                   matches, available_venues_cache, redis_up, inflight,
                   haversine_cache, settings, service>>

\* layers 2 and 3, scoring, the response and the Redis write, for a non-empty candidate list.
\* log_intent_embedding() answers a failed commit with db.rollback(), which expires
\* every row object of the session; the response is then built from the expired venue
\* rows (v.id, v.name, ...), and reading an expired attribute of an AsyncSession raises.
Rank(req, run, hf, embed_ok, log_ok, slot_of) ==
    \E candidate_ids \in {[i \in DOMAIN hf.candidates |-> hf.candidates[i].venue_id]} :
    \E emb_count \in {Cardinality(Range(candidate_ids) \cap DOMAIN venue_embeddings)} :
    \E iv \in {IF emb_count = 0
                THEN [raised |-> FALSE, vector |-> NoText, called |-> FALSE,
                      cache |-> intent_vector_cache]
                ELSE get_intent_vector(run.intent_text, embed_ok)} :
    \E calls \in {run.calls \cup (IF iv.called THEN {"embedding"} ELSE {})} :
        IF iv.raised
        THEN Return([run EXCEPT !.status = "error", !.raised = "embedding", !.calls = calls],
                    hf.cache, intent_vector_cache, intent_embeddings, suggest_cache)
        ELSE
        \E sims \in {similarity_map(candidate_ids, iv.vector)} :
        \E log \in {IF emb_count = 0 THEN intent_embeddings
                     ELSE log_intent_embedding(req.session_id, run.intent_text, log_ok)} :
        \E loads \in {get_load_factors(candidate_ids, req.date, slot_of)} :
        \E scored \in {Scored(candidate_ids, sims, loads)} :
        \E ranked \in {[run EXCEPT !.calls = calls, !.sims = sims, !.loads = loads,
                                   !.scored = scored, !.slot_of = slot_of]} :
            IF emb_count # 0 /\ ~log_ok
            THEN Return([ranked EXCEPT !.status = "error", !.raised = "expired",
                                       !.log_failed = TRUE],
                        hf.cache, iv.cache, log, suggest_cache)
            ELSE
            \E top \in {Top(scored, req.top_n)} :
            \E suggestions \in {Suggestions(top, hf.candidates, sims, loads)} :
                Return([ranked EXCEPT !.suggestions = suggestions],
                       hf.cache, iv.cache, log,
                       RedisSet(suggest_cache, suggest_cache_key(req),
                                [suggestions |-> suggestions, intent_text |-> run.intent_text]))

\* POST /venues/suggest with payload req: the whole of suggest_venues(req).
\* The environment's part is chosen here:
\*   answers   what the routing provider answers per venue it is asked about
\*   slot_of   the slot row the load query's LIMIT 1 returns per venue
\*   embed_ok  whether embedding_provider.embed() returns
\*   log_ok    whether the commit of the intent log row succeeds
Suggest(req) ==
    \E intent_text \in {IntentOf(req)}, cache_key \in {suggest_cache_key(req)} :
    \E cached \in {RedisGet(suggest_cache, cache_key)} :
    \E base \in {[NoRun EXCEPT !.op = "suggest", !.req = req, !.intent_text = intent_text,
                               !.travel_before = travel_time_cache]} :
        IF cached.raised
        THEN Return([base EXCEPT !.status = "error", !.raised = "cache"],
                    travel_time_cache, intent_vector_cache, intent_embeddings, suggest_cache)
        ELSE IF cached.hit
        THEN Return([base EXCEPT !.hit = TRUE,
                                 !.suggestions = cached.value.suggestions,
                                 !.intent_text = cached.value.intent_text],
                    travel_time_cache, intent_vector_cache, intent_embeddings, suggest_cache)
        ELSE
        \E avail \in {Available(req.city, req.date, req.time)} :
        \E geo \in {GeoStage(avail, req)} :
        \E answers \in [NeedsProvider(geo, req) -> ProviderAnswers] :
        \E hf \in {TravelLoop(geo, [raised |-> FALSE, candidates |-> <<>>,
                                    cache |-> travel_time_cache, called |-> FALSE],
                              req, answers)} :
        \E run \in {[base EXCEPT !.calls = {"catalogue"} \cup
                                            (IF hf.called THEN {"routing"} ELSE {}),
                                  !.answers = answers, !.avail = avail, !.geo = geo,
                                  !.candidates = hf.candidates]} :
            IF hf.raised
            THEN Return([run EXCEPT !.status = "error",
                                    !.raised = IF settings.ROUTING_PROVIDER \in RoutingProviders
                                               THEN "routing" ELSE "unknown_provider"],
                        hf.cache, intent_vector_cache, intent_embeddings, suggest_cache)
            ELSE IF hf.candidates = <<>>
            THEN Return(run, hf.cache, intent_vector_cache, intent_embeddings, suggest_cache)
            ELSE
            \E embed_ok \in BOOLEAN, log_ok \in BOOLEAN :
            \E slot_of \in SlotChoices(Range(geo), req.date, req.time) :
                Rank(req, run, hf, embed_ok, log_ok, slot_of)

\* the TTL of a suggest_results entry (300 s) runs out
ExpireSuggest ==
    \E k \in DOMAIN suggest_cache :
        /\ suggest_cache' = Without(suggest_cache, k)
        /\ Record([NoRun EXCEPT !.op = "expire"])
        /\ UNCHANGED <<venues, slots, blackouts, bookings, venue_embeddings, intent_embeddings,
                       travel_time_cache, intent_vector_cache, time_bucket, next_id,
                       matches, available_venues_cache, redis_up, inflight,
                   haversine_cache, settings, service>>

\* suggest_venues(req) as call c, up to `await suggest_cache.set(...)`: a cache miss, the
\* hard filters, the vectors, the load factors, the ranking and the suggestions, none of
\* which fails; the run waits in `inflight` for its Redis write
SuggestBegin(c, req) ==
    /\ c \notin DOMAIN inflight
    /\ \E cached \in {RedisGet(suggest_cache, suggest_cache_key(req))} :
           ~cached.raised /\ ~cached.hit
    /\ \E avail \in {Available(req.city, req.date, req.time)} :
       \E geo \in {GeoStage(avail, req)} :
       \E answers \in [NeedsProvider(geo, req) -> ProviderAnswers] :
       \E hf \in {TravelLoop(geo, [raised |-> FALSE, candidates |-> <<>>,
                                   cache |-> travel_time_cache, called |-> FALSE],
                             req, answers)} :
           /\ ~hf.raised
           /\ hf.candidates # <<>>
           /\ \E slot_of \in SlotChoices(Range(geo), req.date, req.time) :
              \E candidate_ids \in {[i \in DOMAIN hf.candidates |->
                                        hf.candidates[i].venue_id]} :
              \E emb_count \in {Cardinality(Range(candidate_ids) \cap DOMAIN venue_embeddings)} :
              \E iv \in {IF emb_count = 0
                          THEN [raised |-> FALSE, vector |-> NoText, called |-> FALSE,
                                cache |-> intent_vector_cache]
                          ELSE get_intent_vector(IntentOf(req), TRUE)} :
              \E sims \in {similarity_map(candidate_ids, iv.vector)} :
              \E log \in {IF emb_count = 0 THEN intent_embeddings
                           ELSE log_intent_embedding(req.session_id, IntentOf(req), TRUE)} :
              \E loads \in {get_load_factors(candidate_ids, req.date, slot_of)} :
              \E scored \in {Scored(candidate_ids, sims, loads)} :
              \E suggestions \in {Suggestions(Top(scored, req.top_n), hf.candidates,
                                               sims, loads)} :
                  /\ Len(log) <= MaxLogRows
                  /\ travel_time_cache' = hf.cache
                  /\ intent_vector_cache' = iv.cache
                  /\ intent_embeddings' = log
                  /\ inflight' = With(inflight, c,
                         [pc |-> "store",
                          run |-> [NoRun EXCEPT !.op = "suggest", !.req = req,
                                                !.intent_text = IntentOf(req),
                                                !.travel_before = travel_time_cache,
                                                !.answers = answers, !.avail = avail,
                                                !.geo = geo, !.candidates = hf.candidates,
                                                !.sims = sims, !.loads = loads,
                                                !.scored = scored, !.slot_of = slot_of,
                                                !.suggestions = suggestions,
                                                !.logged = Len(log) - Len(intent_embeddings),
                                                !.http = 200]])
    /\ UNCHANGED <<venues, slots, blackouts, bookings, venue_embeddings, suggest_cache,
                   time_bucket, next_id, matches, available_venues_cache, redis_up,
                   haversine_cache, settings, service, last, prev>>

\* the rest of suggest_venues(req) as call c: the Redis write and the return
SuggestStore(c) ==
    /\ c \in DOMAIN inflight
    /\ inflight[c].pc = "store"
    /\ suggest_cache' = RedisSet(suggest_cache, suggest_cache_key(inflight[c].run.req),
                                 [suggestions |-> inflight[c].run.suggestions,
                                  intent_text |-> inflight[c].run.intent_text])
    /\ Record(inflight[c].run)
    /\ inflight' = Without(inflight, c)
    /\ UNCHANGED <<venues, slots, blackouts, bookings, venue_embeddings, intent_embeddings,
                   travel_time_cache, intent_vector_cache, time_bucket, next_id, matches,
                   available_venues_cache, redis_up, haversine_cache, settings, service>>

---------------------------------------------------------------------------
(* Admin writes (app/api/v1/admin.py) *)

Written == [NoRun EXCEPT !.op = "write"]

Rejected == [NoRun EXCEPT !.op = "write", !.status = "rejected"]

\* what a handler that clears both result caches leaves in `last`; `cleared` is the
\* number of keys the two clear() calls deleted
ClearedBy(op) ==
    [NoRun EXCEPT !.op = op,
                  !.cleared = Cardinality(DOMAIN suggest_cache \ DOMAIN RedisClear(suggest_cache))
                              + Cardinality(DOMAIN available_venues_cache
                                                \ DOMAIN RedisClear(available_venues_cache))]

\* POST /admin/venues/{venue_id}/slots
add_venue_slot(venue_id, payload) ==
    /\ venue_id \in DOMAIN venues
    /\ next_id.slot <= MaxSlotId
    /\ slots' = With(slots, next_id.slot,
                     [venue_id |-> venue_id, weekday |-> payload.weekday,
                      start_time |-> payload.start_time, end_time |-> payload.end_time,
                      max_tables_for_two |-> payload.max_tables_for_two, is_active |-> TRUE])
    /\ next_id' = [next_id EXCEPT !.slot = @ + 1]
    /\ Record(Written)
    /\ UNCHANGED <<venues, blackouts, bookings, venue_embeddings, intent_embeddings,
                   travel_time_cache, suggest_cache, intent_vector_cache, time_bucket,
                   matches, available_venues_cache, redis_up, inflight,
                   haversine_cache, settings, service>>

\* PATCH /admin/venues/{venue_id}/slots/{slot_id}
update_venue_slot(venue_id, slot_id, payload) ==
    /\ slot_id \in DOMAIN slots
    /\ slots[slot_id].venue_id = venue_id
    /\ slots' = [slots EXCEPT ![slot_id] =
                    [@ EXCEPT !.weekday = payload.weekday,
                              !.start_time = payload.start_time,
                              !.end_time = payload.end_time,
                              !.max_tables_for_two = payload.max_tables_for_two]]
    /\ Record(Written)
    /\ UNCHANGED <<venues, blackouts, bookings, venue_embeddings, intent_embeddings,
                   travel_time_cache, suggest_cache, intent_vector_cache, time_bucket, next_id,
                   matches, available_venues_cache, redis_up, inflight,
                   haversine_cache, settings, service>>

\* DELETE /admin/venues/{venue_id}/slots/{slot_id}; bookings.slot_id and matches.slot_id
\* are ON DELETE SET NULL
delete_venue_slot(venue_id, slot_id) ==
    /\ slot_id \in DOMAIN slots
    /\ slots[slot_id].venue_id = venue_id
    /\ slots' = Without(slots, slot_id)
    /\ bookings' = [b \in DOMAIN bookings |->
                       IF bookings[b].slot_id = slot_id
                       THEN [bookings[b] EXCEPT !.slot_id = None] ELSE bookings[b]]
    /\ matches' = [m \in DOMAIN matches |->
                      IF matches[m].slot_id = slot_id
                      THEN [matches[m] EXCEPT !.slot_id = None] ELSE matches[m]]
    /\ Record(Written)
    /\ UNCHANGED <<venues, blackouts, venue_embeddings, intent_embeddings,
                   travel_time_cache, suggest_cache, intent_vector_cache, time_bucket, next_id,
                   available_venues_cache, redis_up, inflight,
                   haversine_cache, settings, service>>

\* POST /admin/venues/{venue_id}/blackouts
add_venue_blackout(venue_id, payload) ==
    /\ venue_id \in DOMAIN venues
    /\ next_id.blackout <= MaxBlackoutId
    /\ IF payload.end_date < payload.start_date
       THEN /\ Record(Rejected)
            /\ UNCHANGED <<blackouts, next_id>>
       ELSE /\ blackouts' = With(blackouts, next_id.blackout,
                                 [venue_id |-> venue_id, start_date |-> payload.start_date,
                                  end_date |-> payload.end_date])
            /\ next_id' = [next_id EXCEPT !.blackout = @ + 1]
            /\ Record(Written)
    /\ UNCHANGED <<venues, slots, bookings, venue_embeddings, intent_embeddings,
                   travel_time_cache, suggest_cache, intent_vector_cache, time_bucket,
                   matches, available_venues_cache, redis_up, inflight,
                   haversine_cache, settings, service>>

\* DELETE /admin/venues/{venue_id}/blackouts/{blackout_id}
delete_venue_blackout(venue_id, blackout_id) ==
    /\ blackout_id \in DOMAIN blackouts
    /\ blackouts[blackout_id].venue_id = venue_id
    /\ blackouts' = Without(blackouts, blackout_id)
    /\ Record(Written)
    /\ UNCHANGED <<venues, slots, bookings, venue_embeddings, intent_embeddings,
                   travel_time_cache, suggest_cache, intent_vector_cache, time_bucket, next_id,
                   matches, available_venues_cache, redis_up, inflight,
                   haversine_cache, settings, service>>

\* PATCH /admin/venues/{venue_id} with payload {is_active}
update_venue(venue_id, is_active) ==
    /\ venue_id \in DOMAIN venues
    /\ venues' = [venues EXCEPT ![venue_id].is_active = is_active]
    /\ available_venues_cache' = RedisClear(available_venues_cache)
    /\ suggest_cache' = RedisClear(suggest_cache)
    /\ Record(ClearedBy("update_venue"))
    /\ UNCHANGED <<slots, blackouts, bookings, venue_embeddings, intent_embeddings,
                   travel_time_cache, intent_vector_cache, time_bucket, next_id,
                   matches, redis_up, inflight,
                   haversine_cache, settings, service>>

\* DELETE /admin/venues/{venue_id}
deactivate_venue(venue_id) ==
    /\ venue_id \in DOMAIN venues
    /\ venues' = [venues EXCEPT ![venue_id].is_active = FALSE]
    /\ available_venues_cache' = RedisClear(available_venues_cache)
    /\ suggest_cache' = RedisClear(suggest_cache)
    /\ Record(ClearedBy("deactivate_venue"))
    /\ UNCHANGED <<slots, blackouts, bookings, venue_embeddings, intent_embeddings,
                   travel_time_cache, intent_vector_cache, time_bucket, next_id,
                   matches, redis_up, inflight,
                   haversine_cache, settings, service>>

---------------------------------------------------------------------------
(* Inputs *)

Bath == <<"B", "a", "t", "h">>

bath == <<"b", "a", "t", "h">>

OriginLat == 514545

OriginLng == -25879

Venue(city, lat, is_active) ==
    [city |-> city, lat |-> lat, lng |-> IF lat = None THEN None ELSE OriginLng,
     is_active |-> is_active]

Slot(venue_id, weekday, start_time, end_time, max_tables, is_active) ==
    [venue_id |-> venue_id, weekday |-> weekday, start_time |-> start_time,
     end_time |-> end_time, max_tables_for_two |-> max_tables, is_active |-> is_active]

SlotPayload(weekday, start_time, end_time, max_tables) ==
    [weekday |-> weekday, start_time |-> start_time, end_time |-> end_time,
     max_tables_for_two |-> max_tables]

BlackoutPayload(start_date, end_date) == [start_date |-> start_date, end_date |-> end_date]

\* a matches row between users 1 and 2
Match(venue_id, slot_id, status) ==
    [user_a_id |-> 1, user_b_id |-> 2, venue_id |-> venue_id, slot_id |-> slot_id,
     status |-> status]

\* a bookings row; stripe_payment_intent_id is NULL
Booking(match_id, venue_id, slot_id, booked_date, status) ==
    [match_id |-> match_id, venue_id |-> venue_id, slot_id |-> slot_id,
     booked_date |-> DateStr(booked_date), status |-> status,
     stripe_payment_intent_id |-> None]

\* a SuggestRequest; stage, energy, budget and free_text keep the schema's defaults
Req(date, time, origin_lat, mode, max_minutes, mood, top_n, session_id) ==
    [city |-> bath, date |-> date, time |-> time,
     origin_lat |-> origin_lat, origin_lng |-> IF origin_lat = None THEN None ELSE OriginLng,
     travel_mode |-> mode, max_travel_minutes |-> max_minutes,
     stage |-> "first_date", mood |-> mood, energy |-> "low", budget |-> "mid",
     free_text |-> NoText, top_n |-> top_n, session_id |-> session_id]

---------------------------------------------------------------------------
(* Bookings (app/api/v1/bookings.py) *)

MaxBookingId == 2

\* what a bookings handler that answers `http` leaves in `last`
Answered(op, http, detail) ==
    [NoRun EXCEPT !.op = op, !.http = http, !.raised = detail,
                  !.status = IF http < 300 THEN "ok" ELSE "rejected"]

\* a BookingCreate body
BookingPayload(match_id, venue_id, slot_id, date, time) ==
    [match_id |-> match_id, venue_id |-> venue_id, slot_id |-> slot_id, date |-> date,
     time |-> time]

\* _slot_load(): min(count / max(max_tables, 1), 1.0) over the pending and confirmed
\* bookings of the slot and date
slot_load(slot_id, booked_date, max_tables) ==
    LoadOf(Cardinality({b \in DOMAIN bookings :
               /\ bookings[b].slot_id = slot_id
               /\ bookings[b].booked_date = booked_date
               /\ bookings[b].status \in {"confirmed", "pending"}}),
           max_tables)

\* the status create_booking answers for the payload and the caller, and why; stripe is
\* "nokey" without STRIPE_SECRET_KEY, else what PaymentIntent.create does: "ok", "error"
create_booking_outcome(payload, user_id, stripe) ==
    IF payload.match_id \notin DOMAIN matches THEN <<404, "match">>
    ELSE IF matches[payload.match_id].status # "confirmed" THEN <<400, "match_status">>
    ELSE IF user_id \notin {matches[payload.match_id].user_a_id,
                            matches[payload.match_id].user_b_id} THEN <<403, "member">>
    ELSE IF \E b \in DOMAIN bookings :
                /\ bookings[b].match_id = payload.match_id
                /\ bookings[b].status \notin {"cancelled", "refunded"} THEN <<409, "duplicate">>
    ELSE IF payload.venue_id \notin DOMAIN venues THEN <<404, "venue">>
    ELSE IF \/ payload.slot_id \notin DOMAIN slots
            \/ slots[payload.slot_id].venue_id # payload.venue_id
            \/ ~slots[payload.slot_id].is_active THEN <<404, "slot">>
    ELSE IF ~RatLt(slot_load(payload.slot_id, DateStr(payload.date),
                             slots[payload.slot_id].max_tables_for_two), <<1, 1>>)
         THEN <<409, "no_tables">>
    ELSE IF stripe = "error" THEN <<502, "payment">>
    ELSE <<201, "none">>

\* intent.id of the PaymentIntent created for the n-th booking: "pi_n" as the number n
PaymentIntentId(n) == n

\* the Booking(...) that create_booking builds: confirmed without a Stripe key, else
\* pending with the PaymentIntent's id
NewBooking(payload, stripe, n) ==
    [Booking(payload.match_id, payload.venue_id, payload.slot_id, payload.date,
             IF stripe = "nokey" THEN "confirmed" ELSE "pending")
        EXCEPT !.stripe_payment_intent_id = IF stripe = "nokey" THEN None
                                            ELSE PaymentIntentId(n)]

\* variant of the insert that looks at the slot's bookings again and writes nothing
\* when they have reached the capacity
commit_booking_if_room(table, id, row) ==
    IF Cardinality({b \in DOMAIN table :
           /\ table[b].slot_id = row.slot_id
           /\ table[b].booked_date = row.booked_date
           /\ table[b].status \in {"confirmed", "pending"}})
         < slots[row.slot_id].max_tables_for_two
    THEN With(table, id, row) ELSE table

\* db.add(booking); await db.commit(): the table afterwards
commit_booking(table, id, row) == With(table, id, row)

\* POST /bookings by user_id
create_booking(payload, user_id, stripe) ==
    /\ next_id.booking <= MaxBookingId
    /\ \E out \in {create_booking_outcome(payload, user_id, stripe)} :
           IF out[1] = 201
           THEN /\ bookings' = commit_booking(bookings, next_id.booking,
                                              NewBooking(payload, stripe, next_id.booking))
                /\ next_id' = [next_id EXCEPT !.booking = @ + 1]
                /\ available_venues_cache' = RedisClear(available_venues_cache)
                /\ suggest_cache' = RedisClear(suggest_cache)
                /\ Record([ClearedBy("create_booking") EXCEPT !.http = 201])
           ELSE /\ Record(Answered("create_booking", out[1], out[2]))
                /\ UNCHANGED <<bookings, next_id, available_venues_cache, suggest_cache>>
    /\ UNCHANGED <<venues, slots, blackouts, venue_embeddings, intent_embeddings,
                   travel_time_cache, intent_vector_cache, time_bucket, matches, redis_up,
                   inflight,
                   haversine_cache, settings, service>>

\* POST /bookings/{booking_id}/confirm
confirm_booking(booking_id) ==
    /\ IF booking_id \notin DOMAIN bookings
       THEN /\ Record(Answered("confirm_booking", 404, "booking"))
            /\ UNCHANGED <<bookings, matches>>
       ELSE IF bookings[booking_id].status # "pending"
       THEN /\ Record(Answered("confirm_booking", 400, "booking_status"))
            /\ UNCHANGED <<bookings, matches>>
       ELSE /\ bookings' = [bookings EXCEPT ![booking_id].status = "confirmed"]
            /\ matches' = [m \in DOMAIN matches |->
                              IF m = bookings[booking_id].match_id
                              THEN [matches[m] EXCEPT !.status = "completed"] ELSE matches[m]]
            /\ Record(Answered("confirm_booking", 200, "none"))
    /\ UNCHANGED <<venues, slots, blackouts, venue_embeddings, intent_embeddings,
                   travel_time_cache, suggest_cache, intent_vector_cache, time_bucket, next_id,
                   available_venues_cache, redis_up, inflight,
                   haversine_cache, settings, service>>

\* DELETE /bookings/{booking_id} by user_id; bookings.match_id is NOT NULL with
\* ON DELETE CASCADE, so the booking's match exists
cancel_booking(booking_id, user_id) ==
    /\ IF booking_id \notin DOMAIN bookings
       THEN /\ Record(Answered("cancel_booking", 404, "booking"))
            /\ UNCHANGED bookings
       ELSE IF user_id \notin {matches[bookings[booking_id].match_id].user_a_id,
                               matches[bookings[booking_id].match_id].user_b_id}
       THEN /\ Record(Answered("cancel_booking", 403, "member"))
            /\ UNCHANGED bookings
       ELSE /\ bookings' = [bookings EXCEPT ![booking_id].status = "cancelled"]
            /\ Record(Answered("cancel_booking", 204, "none"))
    /\ UNCHANGED <<venues, slots, blackouts, venue_embeddings, intent_embeddings,
                   travel_time_cache, suggest_cache, intent_vector_cache, time_bucket, next_id,
                   matches, available_venues_cache, redis_up, inflight,
                   haversine_cache, settings, service>>

\* variant of the webhook's test that takes a booking of any status
webhook_applies_to_any(booking) == TRUE

\* `booking.status == BookingStatus.pending` in stripe_webhook
webhook_applies(booking) == booking.status = "pending"

\* a Stripe event as construct_event() returns it
StripeEvent(type, pi_id) == [type |-> type, id |-> pi_id]

\* POST /bookings/stripe/webhook with STRIPE_WEBHOOK_SECRET configured; sig_ok is
\* whether construct_event() accepts the signature
stripe_webhook(event, sig_ok) ==
    /\ IF ~sig_ok
       THEN /\ Record([Answered("stripe_webhook", 400, "signature") EXCEPT !.req = event])
            /\ UNCHANGED <<bookings, matches>>
       ELSE \E found \in {{b \in DOMAIN bookings :
                               bookings[b].stripe_payment_intent_id = event.id}} :
            IF /\ event.type = "payment_intent.succeeded"
               /\ found # {}
               /\ \A b \in found : webhook_applies(bookings[b])
            THEN /\ bookings' = [b \in DOMAIN bookings |->
                                    IF b \in found
                                    THEN [bookings[b] EXCEPT !.status = "confirmed"]
                                    ELSE bookings[b]]
                 /\ matches' = [m \in DOMAIN matches |->
                                   IF \E b \in found : bookings[b].match_id = m
                                   THEN [matches[m] EXCEPT !.status = "completed"]
                                   ELSE matches[m]]
                 /\ Record([Answered("stripe_webhook", 200, "confirmed") EXCEPT !.req = event])
            ELSE /\ Record([Answered("stripe_webhook", 200, "none") EXCEPT !.req = event])
                 /\ UNCHANGED <<bookings, matches>>
    /\ UNCHANGED <<venues, slots, blackouts, venue_embeddings, intent_embeddings,
                   travel_time_cache, suggest_cache, intent_vector_cache, time_bucket, next_id,
                   available_venues_cache, redis_up, inflight, haversine_cache, settings,
                   service>>

\* create_booking up to the insert, as call c: the match, duplicate, venue, slot and
\* capacity reads and the PaymentIntent; the call goes on to the insert on 201
BeginCreate(c, payload, user_id, stripe) ==
    /\ c \notin DOMAIN inflight
    /\ \E out \in {create_booking_outcome(payload, user_id, stripe)} :
           inflight' = With(inflight, c,
                            [pc |-> IF out[1] = 201 THEN "insert" ELSE "done",
                             payload |-> payload, stripe |-> stripe, http |-> out[1],
                             detail |-> out[2], booking_id |-> None])
    /\ UNCHANGED <<venues, slots, blackouts, bookings, venue_embeddings, intent_embeddings,
                   travel_time_cache, suggest_cache, intent_vector_cache, time_bucket, next_id,
                   matches, available_venues_cache, redis_up, haversine_cache, settings,
                   service, last, prev>>

\* the rest of create_booking as call c: the insert, the commit and the two clear() calls
FinishCreate(c) ==
    /\ c \in DOMAIN inflight
    /\ inflight[c].pc = "insert"
    /\ next_id.booking <= MaxBookingId
    /\ bookings' = commit_booking(bookings, next_id.booking,
                                  NewBooking(inflight[c].payload, inflight[c].stripe,
                                             next_id.booking))
    /\ next_id' = [next_id EXCEPT !.booking = @ + 1]
    /\ available_venues_cache' = RedisClear(available_venues_cache)
    /\ suggest_cache' = RedisClear(suggest_cache)
    /\ inflight' = [inflight EXCEPT ![c].pc = "done", ![c].booking_id = next_id.booking]
    /\ UNCHANGED <<venues, slots, blackouts, venue_embeddings, intent_embeddings,
                   travel_time_cache, intent_vector_cache, time_bucket, matches, redis_up,
                   haversine_cache, settings, service, last, prev>>

---------------------------------------------------------------------------
(* GET /venues/available (app/api/v1/venues.py) *)

\* _available_cache_key(): the md5 of city|weekday|time|origin_hash|mode|max_travel_min
available_cache_key(city, weekday, time, origin_hash, mode, max_travel_min) ==
    <<city, weekday, time, origin_hash, mode, max_travel_min>>

\* origin_hash of the handler: _origin_hash() = "lat,lng" rounded to 3 decimals when both
\* coordinates are truthy, else "none" (here the empty tuple)
available_origin_hash(origin_lat, origin_lng) ==
    IF Truthy(origin_lat) /\ Truthy(origin_lng)
    THEN <<Round3(origin_lat), Round3(origin_lng)>> ELSE <<>>

\* the query parameters of GET /venues/available, under the names of SuggestRequest
AvailableQuery(date, time, origin_lat, mode, max_travel_min) ==
    [city |-> bath, date |-> date, time |-> time, origin_lat |-> origin_lat,
     origin_lng |-> IF origin_lat = None THEN None ELSE OriginLng,
     travel_mode |-> mode, max_travel_minutes |-> max_travel_min]

\* the Haversine stage on a cache hit: venues = [v for v in venues if v.id in id_set]
haversine_stage_cached(list, cached_ids, q) == FilterSeq(list, Range(list) \cap Range(cached_ids))

\* the venues of `list` for which the loop's get_travel_time() would call the provider
AvailableNeedsProvider(list, q) ==
    {v \in Range(list) :
        \A r \in CacheRowsFor(travel_time_cache, make_origin_hash(q.origin_lat, q.origin_lng),
                               v, q.travel_mode, time_bucket) : ~r.fresh}

RECURSIVE AvailableTravelLoop(_, _, _, _)
\* `for v in venues: travel_minutes = await get_travel_time(...)`; None and values above
\* max_travel_min are skipped, an exception ends the handler
AvailableTravelLoop(list, acc, q, answers) ==
    IF list = <<>> \/ acc.raised THEN acc
    ELSE AvailableTravelLoop(
             Tail(list),
             Visit(acc, Head(list), q,
                   get_travel_time(acc.cache, q.origin_lat, q.origin_lng, Head(list),
                                   q.travel_mode,
                                   IF Head(list) \in DOMAIN answers THEN answers[Head(list)]
                                   ELSE Answer("non200", 0))),
             q, answers)

\* the list of _venue_dict() rows of the branch without an origin
WithoutTravel(list) == [i \in DOMAIN list |-> [venue_id |-> list[i], travel_minutes |-> None]]

\* the handler has answered: what it leaves in the tables and caches
AvailableReturn(run, travel, haversine, available) ==
    /\ travel_time_cache' = travel
    /\ haversine_cache' = haversine
    /\ available_venues_cache' = available
    /\ Record(run)
    /\ UNCHANGED <<venues, slots, blackouts, bookings, venue_embeddings, intent_embeddings,
                   suggest_cache, intent_vector_cache, time_bucket, next_id, matches,
                   redis_up, inflight, settings, service>>

\* GET /venues/available with the query q, the provider answering from `answer_set`;
\* the venues carry no cuisine and no vibe_tags, so _is_date_appropriate() keeps each of
\* them. In `last`: avail is the list after the blackout filter, geo the list after the
\* Haversine stage, candidates the venues answered with their travel minutes
get_available_venues(q, answer_set) ==
    \E cache_key \in {available_cache_key(q.city, Weekday(q.date), q.time,
                                          available_origin_hash(q.origin_lat, q.origin_lng),
                                          q.travel_mode, q.max_travel_minutes)} :
    \E cached \in {RedisGet(available_venues_cache, cache_key)} :
    \E base \in {[NoRun EXCEPT !.op = "available", !.req = q, !.http = 200,
                               !.travel_before = travel_time_cache]} :
        IF cached.hit
        THEN AvailableReturn([base EXCEPT !.hit = TRUE, !.candidates = cached.value],
                             travel_time_cache, haversine_cache, available_venues_cache)
        ELSE
        \E avail \in {Available(q.city, q.date, q.time)} :
            IF q.origin_lat = None \/ q.origin_lng = None
            THEN AvailableReturn([base EXCEPT !.avail = avail, !.geo = avail,
                                              !.candidates = WithoutTravel(avail)],
                                 travel_time_cache, haversine_cache,
                                 RedisSet(available_venues_cache, cache_key,
                                          WithoutTravel(avail)))
            ELSE
            \E haversine_key \in {<<available_origin_hash(q.origin_lat, q.origin_lng),
                                     q.travel_mode, q.max_travel_minutes>>} :
            \E cached_ids \in {RedisGet(haversine_cache, haversine_key)} :
            \E geo \in {IF cached_ids.hit
                         THEN haversine_stage_cached(avail, cached_ids.value, q)
                         ELSE prefilter_by_distance(avail, q.origin_lat, q.travel_mode,
                                                    q.max_travel_minutes)} :
            \E haversine \in {IF cached_ids.hit THEN haversine_cache
                               ELSE RedisSet(haversine_cache, haversine_key, geo)} :
            \E answers \in [AvailableNeedsProvider(geo, q) -> answer_set] :
            \E loop \in {AvailableTravelLoop(geo, [raised |-> FALSE, candidates |-> <<>>,
                                                    cache |-> travel_time_cache,
                                                    called |-> FALSE], q, answers)} :
            \E run \in {[base EXCEPT !.avail = avail, !.geo = geo, !.answers = answers,
                                      !.hit = FALSE,
                                      !.calls = IF cached_ids.hit THEN {"haversine_hit"} ELSE {},
                                      !.candidates = loop.candidates]} :
                IF loop.raised
                THEN AvailableReturn([run EXCEPT !.status = "error", !.raised = "routing",
                                                 !.http = 500],
                                     loop.cache, haversine, available_venues_cache)
                ELSE AvailableReturn(run, loop.cache, haversine,
                                     RedisSet(available_venues_cache, cache_key,
                                              loop.candidates))

\* the TTL of an available_venues entry (300 s) or of a haversine entry (3600 s) runs out
ExpireAvailable ==
    /\ \/ \E k \in DOMAIN available_venues_cache :
              /\ available_venues_cache' = Without(available_venues_cache, k)
              /\ UNCHANGED haversine_cache
       \/ \E k \in DOMAIN haversine_cache :
              /\ haversine_cache' = Without(haversine_cache, k)
              /\ UNCHANGED available_venues_cache
    /\ Record([NoRun EXCEPT !.op = "expire"])
    /\ UNCHANGED <<venues, slots, blackouts, bookings, venue_embeddings, intent_embeddings,
                   travel_time_cache, suggest_cache, intent_vector_cache, time_bucket,
                   next_id, matches, redis_up, inflight, settings, service>>

---------------------------------------------------------------------------
(* Spec: the catalogue under admin writes, suggest calls without an origin *)

NoPrev ==
    [op |-> "none", req |-> NoText, status |-> "ok", suggestions |-> <<>>, hit |-> FALSE,
     up |-> TRUE]

\* two Wednesdays (weekday 2): ordinals 3 and 10
Requests == {Req(3, 19, None, "drive", 45, "romantic", 2, NoSession),
             Req(10, 19, None, "drive", 45, "romantic", 2, NoSession)}

SlotPayloads == {SlotPayload(2, 18, 22, 2), SlotPayload(2, 17, 19, 2), SlotPayload(3, 18, 22, 2)}

BlackoutPayloads == {BlackoutPayload(3, 3), BlackoutPayload(3, 10), BlackoutPayload(10, 3)}

Init ==
    /\ venues = [v \in {1, 2} |-> Venue(Bath, None, TRUE)]
    /\ slots = [i \in {1} |-> Slot(1, 2, 18, 22, 2, TRUE)]
    /\ blackouts = <<>>
    /\ bookings = <<>>
    /\ venue_embeddings = <<>>
    /\ intent_embeddings = <<>>
    /\ travel_time_cache = {}
    /\ suggest_cache = <<>>
    /\ intent_vector_cache = <<>>
    /\ time_bucket = "weekday_evening"
    /\ next_id = [slot |-> 2, blackout |-> 1, booking |-> 1]
    /\ matches = <<>>
    /\ available_venues_cache = <<>>
    /\ redis_up = TRUE
    /\ inflight = <<>>
    /\ haversine_cache = <<>>
    /\ settings = DefaultSettings
    /\ service = "running"
    /\ last = NoRun
    /\ prev = NoPrev

Next ==
    \/ \E req \in Requests : Suggest(req)
    \/ ExpireSuggest
    \/ \E v \in DOMAIN venues, p \in SlotPayloads : add_venue_slot(v, p)
    \/ \E v \in DOMAIN venues, i \in DOMAIN slots, p \in SlotPayloads : update_venue_slot(v, i, p)
    \/ \E v \in DOMAIN venues, i \in DOMAIN slots : delete_venue_slot(v, i)
    \/ \E v \in DOMAIN venues, p \in BlackoutPayloads : add_venue_blackout(v, p)
    \/ \E v \in DOMAIN venues, i \in DOMAIN blackouts : delete_venue_blackout(v, i)
    \/ \E v \in DOMAIN venues, a \in BOOLEAN : update_venue(v, a)
    \/ \E v \in DOMAIN venues : deactivate_venue(v)

Spec == Init /\ [][Next]_vars

---------------------------------------------------------------------------
(* SpecAvail: a fixed catalogue of slot windows and blackouts, suggest calls *)
(* on three consecutive dates                                               *)

\* ordinals 2, 3, 4 are weekdays 1, 2, 3
AvailRequests == {Req(d, 19, None, "drive", 45, "romantic", 2, NoSession) : d \in {2, 3, 4}}

\* slot windows <<start_time, end_time>> around the request time 19
Windows == {<<19, 22>>, <<17, 19>>, <<18, 20>>, <<20, 22>>}

\* one slot per venue and weekday 1..3, venue 1 with window w1, venue 2 with w2
SlotTable(w1, w2) ==
    <<Slot(1, 1, w1[1], w1[2], 2, TRUE), Slot(1, 2, w1[1], w1[2], 2, TRUE),
      Slot(1, 3, w1[1], w1[2], 2, TRUE), Slot(2, 1, w2[1], w2[2], 2, TRUE),
      Slot(2, 2, w2[1], w2[2], 2, TRUE), Slot(2, 3, w2[1], w2[2], 2, TRUE)>>

Blackout(venue_id, start_date, end_date) ==
    [venue_id |-> venue_id, start_date |-> start_date, end_date |-> end_date]

BlackoutTables ==
    {<<>>, <<Blackout(1, 3, 3)>>, <<Blackout(2, 4, 4)>>, <<Blackout(1, 3, 3), Blackout(2, 4, 4)>>,
     <<Blackout(1, 2, 3)>>}

InitAvail ==
    /\ venues = [v \in {1, 2} |-> Venue(Bath, None, TRUE)]
    /\ \E w1 \in Windows, w2 \in Windows : slots = SlotTable(w1, w2)
    /\ blackouts \in BlackoutTables
    /\ bookings = <<>>
    /\ venue_embeddings = <<>>
    /\ intent_embeddings = <<>>
    /\ travel_time_cache = {}
    /\ suggest_cache = <<>>
    /\ intent_vector_cache = <<>>
    /\ time_bucket = "weekday_evening"
    /\ next_id = [slot |-> 7, blackout |-> 3, booking |-> 1]
    /\ matches = <<>>
    /\ available_venues_cache = <<>>
    /\ redis_up = TRUE
    /\ inflight = <<>>
    /\ haversine_cache = <<>>
    /\ settings = DefaultSettings
    /\ service = "running"
    /\ last = NoRun
    /\ prev = NoPrev

NextAvail ==
    \/ \E req \in AvailRequests : Suggest(req)
    \/ ExpireSuggest

SpecAvail == InitAvail /\ [][NextAvail]_vars

---------------------------------------------------------------------------
(* SpecRank: embeddings, bookings and top_n vary; suggest calls rank them *)

RankRequests == {Req(3, 19, None, "drive", 45, "romantic", n, "s1") : n \in {2, 4}}

\* the intent vector of every request of RankRequests
RankVector == Embed(IntentOf(Req(3, 19, None, "drive", 45, "romantic", 1, "s1")))

\* a venue_embeddings row whose vector lies at `distance` hundredths from RankVector
EmbeddingRow(venue_id, distance) ==
    [embedding |-> [x \in {RankVector} |-> distance], source_text |-> <<"about", venue_id>>]

\* the venue_embeddings table from a choice per venue: None (no row) or a distance
EmbeddingTable(choice) ==
    [v \in {w \in DOMAIN choice : choice[w] # None} |-> EmbeddingRow(v, choice[v])]

\* n1 active bookings of slot 1 and n2 of slot 2 on date 3, after a cancelled one;
\* slot i belongs to venue i, booking i to match i
BookingTable(n1, n2) ==
    LET rows == <<[slot_id |-> 1, status |-> "cancelled"]>>
                    \o [i \in 1..n1 |->
                           [slot_id |-> 1, status |-> IF i = 1 THEN "pending" ELSE "confirmed"]]
                    \o [i \in 1..n2 |-> [slot_id |-> 2, status |-> "confirmed"]]
    IN  [i \in DOMAIN rows |-> Booking(i, rows[i].slot_id, rows[i].slot_id, 3, rows[i].status)]

\* the matches the bookings of a table were made from: a pending booking leaves its
\* match confirmed, confirm_booking() completes it
MatchesOf(table) ==
    [i \in DOMAIN table |->
        Match(table[i].venue_id, table[i].slot_id,
              IF table[i].status = "pending" THEN "confirmed" ELSE "completed")]

InitRank ==
    /\ venues = [v \in {1, 2, 3} |-> Venue(Bath, None, TRUE)]
    /\ slots = <<Slot(1, 2, 18, 22, 5, TRUE), Slot(2, 2, 18, 22, 5, TRUE),
                 Slot(3, 2, 18, 22, 2, TRUE), Slot(3, 2, 19, 23, 2, TRUE)>>
    /\ blackouts = <<>>
    /\ \E n1 \in {0, 4}, n2 \in {0, 4} : bookings = BookingTable(n1, n2)
    /\ \E d1 \in {None, 0, 8, 10}, d2 \in {None, 0, 8, 10}, d3 \in {None, 10} :
           venue_embeddings = EmbeddingTable(<<d1, d2, d3>>)
    /\ intent_embeddings = <<>>
    /\ travel_time_cache = {}
    /\ suggest_cache = <<>>
    /\ intent_vector_cache = <<>>
    /\ time_bucket = "weekday_evening"
    /\ next_id = [slot |-> 5, blackout |-> 1, booking |-> 10]
    /\ matches = MatchesOf(bookings)
    /\ available_venues_cache = <<>>
    /\ redis_up = TRUE
    /\ inflight = <<>>
    /\ haversine_cache = <<>>
    /\ settings = DefaultSettings
    /\ service = "running"
    /\ last = NoRun
    /\ prev = NoPrev

NextRank ==
    \/ \E req \in RankRequests : Suggest(req)
    \/ ExpireSuggest

SpecRank == InitRank /\ [][NextRank]_vars

---------------------------------------------------------------------------
(* SpecRoute: suggest calls with an origin; the routing provider answers as *)
(* it pleases and travel-time rows outlive their TTL                        *)

RouteRequests == {Req(3, 19, OriginLat, "drive", 45, "romantic", 2, NoSession)}

\* a travel_time_cache row reaches the age TRAVEL_TIME_CACHE_TTL_HOURS
ExpireTravel ==
    \E r \in travel_time_cache :
        /\ r.fresh
        /\ travel_time_cache' = (travel_time_cache \ {r}) \cup {[r EXCEPT !.fresh = FALSE]}
        /\ Record([NoRun EXCEPT !.op = "expire"])
        /\ UNCHANGED <<venues, slots, blackouts, bookings, venue_embeddings, intent_embeddings,
                       suggest_cache, intent_vector_cache, time_bucket, next_id,
                       matches, available_venues_cache, redis_up, inflight,
                   haversine_cache, settings, service>>

\* the values get_time_bucket() takes on a weekday
TimeBuckets == {"weekday_daytime", "weekday_evening"}

\* the wall clock passes 17:00 or midnight: get_time_bucket() answers another bucket
ChangeBucket ==
    \E b \in TimeBuckets \ {time_bucket} :
        /\ time_bucket' = b
        /\ Record([NoRun EXCEPT !.op = "clock"])
        /\ UNCHANGED <<venues, slots, blackouts, bookings, venue_embeddings, intent_embeddings,
                       travel_time_cache, suggest_cache, intent_vector_cache, next_id,
                       matches, available_venues_cache, redis_up, inflight,
                   haversine_cache, settings, service>>

InitRoute ==
    /\ venues = <<Venue(Bath, OriginLat + 60, TRUE), Venue(Bath, OriginLat + 400, TRUE)>>
    /\ slots = <<Slot(1, 2, 18, 22, 2, TRUE), Slot(2, 2, 18, 22, 2, TRUE)>>
    /\ blackouts = <<>>
    /\ bookings = <<>>
    /\ venue_embeddings = EmbeddingTable(<<10, None>>)
    /\ intent_embeddings = <<>>
    /\ travel_time_cache = {}
    /\ suggest_cache = <<>>
    /\ intent_vector_cache = <<>>
    /\ time_bucket = "weekday_evening"
    /\ next_id = [slot |-> 3, blackout |-> 1, booking |-> 1]
    /\ matches = <<>>
    /\ available_venues_cache = <<>>
    /\ redis_up = TRUE
    /\ inflight = <<>>
    /\ haversine_cache = <<>>
    /\ settings = DefaultSettings
    /\ service = "running"
    /\ last = NoRun
    /\ prev = NoPrev

NextRoute ==
    \/ \E req \in RouteRequests : Suggest(req)
    \/ ExpireSuggest
    \/ ExpireTravel

SpecRoute == InitRoute /\ [][NextRoute]_vars

---------------------------------------------------------------------------
(* SpecBucket: as SpecRoute, and the wall clock moves from one time bucket  *)
(* to another; venue 2 has no coordinates                                   *)

InitBucket ==
    /\ venues = <<Venue(Bath, OriginLat + 60, TRUE), Venue(Bath, None, TRUE)>>
    /\ slots = <<Slot(1, 2, 18, 22, 2, TRUE), Slot(2, 2, 18, 22, 2, TRUE)>>
    /\ blackouts = <<>>
    /\ bookings = <<>>
    /\ venue_embeddings = <<>>
    /\ intent_embeddings = <<>>
    /\ travel_time_cache = {}
    /\ suggest_cache = <<>>
    /\ intent_vector_cache = <<>>
    /\ time_bucket \in TimeBuckets
    /\ next_id = [slot |-> 3, blackout |-> 1, booking |-> 1]
    /\ matches = <<>>
    /\ available_venues_cache = <<>>
    /\ redis_up = TRUE
    /\ inflight = <<>>
    /\ haversine_cache = <<>>
    /\ settings = DefaultSettings
    /\ service = "running"
    /\ last = NoRun
    /\ prev = NoPrev

NextBucket ==
    \/ \E req \in RouteRequests : Suggest(req)
    \/ ExpireSuggest
    \/ ExpireTravel
    \/ ChangeBucket

SpecBucket == InitBucket /\ [][NextBucket]_vars

---------------------------------------------------------------------------
(* SpecGeo: prefilter_by_distance() applied to venues at drawn latitudes *)

\* "hover" is a mode _SPEED_KM_PER_MIN does not know
GeoModes == {"walk", "drive", "transit", "hover"}

GeoMinutes == {5, 10, 45}

GeoLatitudes == {None, OriginLat, OriginLat + 60, OriginLat + 70, OriginLat + 400, OriginLat - 900}

\* prefilter_by_distance(venues, origin, mode, max_travel_min) on all venues, in id order
Prefilter(mode, max_travel_min) ==
    /\ Record([NoRun EXCEPT !.op = "prefilter",
                            !.req = [travel_mode |-> mode, max_travel_minutes |-> max_travel_min],
                            !.geo = prefilter_by_distance(SortedSeq(DOMAIN venues), OriginLat,
                                                          mode, max_travel_min)])
    /\ UNCHANGED <<venues, slots, blackouts, bookings, venue_embeddings, intent_embeddings,
                   travel_time_cache, suggest_cache, intent_vector_cache, time_bucket, next_id,
                   matches, available_venues_cache, redis_up, inflight,
                   haversine_cache, settings, service>>

InitGeo ==
    /\ \E l1 \in GeoLatitudes, l2 \in GeoLatitudes, l3 \in GeoLatitudes :
           venues = <<Venue(Bath, l1, TRUE), Venue(Bath, l2, TRUE), Venue(Bath, l3, TRUE)>>
    /\ slots = <<>>
    /\ blackouts = <<>>
    /\ bookings = <<>>
    /\ venue_embeddings = <<>>
    /\ intent_embeddings = <<>>
    /\ travel_time_cache = {}
    /\ suggest_cache = <<>>
    /\ intent_vector_cache = <<>>
    /\ time_bucket = "weekday_evening"
    /\ next_id = [slot |-> 1, blackout |-> 1, booking |-> 1]
    /\ matches = <<>>
    /\ available_venues_cache = <<>>
    /\ redis_up = TRUE
    /\ inflight = <<>>
    /\ haversine_cache = <<>>
    /\ settings = DefaultSettings
    /\ service = "running"
    /\ last = NoRun
    /\ prev = NoPrev

NextGeo == \E mode \in GeoModes, m \in GeoMinutes : Prefilter(mode, m)

SpecGeo == InitGeo /\ [][NextGeo]_vars

---------------------------------------------------------------------------
(* SpecCache: suggest calls while the Redis server goes down and comes back *)

CacheRequests == {Req(d, 19, None, "drive", 45, "romantic", 2, "s1") : d \in {3, 10}}

\* the Redis server stops answering, or answers again
RedisFlip ==
    /\ redis_up' = ~redis_up
    /\ UNCHANGED <<venues, slots, blackouts, bookings, venue_embeddings, intent_embeddings,
                   travel_time_cache, suggest_cache, intent_vector_cache, time_bucket, next_id,
                   matches, available_venues_cache, inflight, haversine_cache, settings,
                   service, last, prev>>

InitCache ==
    /\ venues = [v \in {1, 2} |-> Venue(Bath, None, TRUE)]
    /\ slots = <<Slot(1, 2, 18, 22, 2, TRUE), Slot(2, 2, 18, 22, 2, TRUE)>>
    /\ blackouts = <<>>
    /\ bookings = <<>>
    /\ \E d1 \in {None, 10}, d2 \in {None, 8} : venue_embeddings = EmbeddingTable(<<d1, d2>>)
    /\ intent_embeddings = <<>>
    /\ travel_time_cache = {}
    /\ suggest_cache = <<>>
    /\ intent_vector_cache = <<>>
    /\ time_bucket = "weekday_evening"
    /\ next_id = [slot |-> 3, blackout |-> 1, booking |-> 1]
    /\ matches = <<>>
    /\ available_venues_cache = <<>>
    /\ redis_up \in BOOLEAN
    /\ inflight = <<>>
    /\ haversine_cache = <<>>
    /\ settings = DefaultSettings
    /\ service = "running"
    /\ last = NoRun
    /\ prev = NoPrev

NextCache ==
    \/ \E req \in CacheRequests : Suggest(req)
    \/ ExpireSuggest
    \/ RedisFlip

SpecCache == InitCache /\ [][NextCache]_vars

---------------------------------------------------------------------------
(* SpecHard: suggest calls that the hard filters may leave without a venue: *)
(* a date without slots, blackouts, a walk too far, routes too long          *)

\* date 4 is weekday 3, on which no venue has a slot; both venues lie 1.1 km from the
\* origin, outside the radius of a 5 minute walk (747 m)
HardRequests ==
    {Req(d, 19, OriginLat, "drive", 45, "romantic", 2, NoSession) : d \in {3, 4}}
        \cup {Req(3, 19, OriginLat, "walk", 5, "romantic", 2, NoSession)}

InitHard ==
    /\ venues = <<Venue(Bath, OriginLat + 100, TRUE), Venue(Bath, OriginLat + 100, TRUE)>>
    /\ slots = <<Slot(1, 2, 18, 22, 2, TRUE), Slot(2, 2, 18, 22, 2, TRUE)>>
    /\ blackouts \in {<<>>, <<Blackout(1, 3, 3), Blackout(2, 2, 5)>>}
    /\ bookings = <<>>
    /\ venue_embeddings = <<>>
    /\ intent_embeddings = <<>>
    /\ travel_time_cache = {}
    /\ suggest_cache = <<>>
    /\ intent_vector_cache = <<>>
    /\ time_bucket = "weekday_evening"
    /\ next_id = [slot |-> 3, blackout |-> 3, booking |-> 1]
    /\ matches = <<>>
    /\ available_venues_cache = <<>>
    /\ redis_up = TRUE
    /\ inflight = <<>>
    /\ haversine_cache = <<>>
    /\ settings = DefaultSettings
    /\ service = "running"
    /\ last = NoRun
    /\ prev = NoPrev

NextHard ==
    \/ \E req \in HardRequests : Suggest(req)
    \/ ExpireSuggest

SpecHard == InitHard /\ [][NextHard]_vars

---------------------------------------------------------------------------
(* SpecLoad: bookings of every status on the requested slot and date, next  *)
(* to bookings of another date and another slot; capacities from 0 upwards  *)

LoadRequests == {Req(d, 19, None, "drive", 45, "romantic", 2, NoSession) : d \in {3, 10}}

BookingStatuses == {"pending", "confirmed", "cancelled", "refunded"}

\* slot 1 (venue 1, Wednesday evening) holds three bookings on date 3 with the
\* statuses s1, s2, s3 and one on date 10; slot 3 is venue 1's Thursday slot
LoadBookings(s1, s2, s3) ==
    <<Booking(1, 1, 1, 3, s1), Booking(2, 1, 1, 3, s2), Booking(3, 1, 1, 3, s3),
      Booking(4, 1, 1, 10, "confirmed"), Booking(5, 1, 3, 3, "confirmed"),
      Booking(6, 2, 2, 3, "refunded")>>

InitLoad ==
    /\ venues = [v \in {1, 2} |-> Venue(Bath, None, TRUE)]
    /\ \E c1 \in {0, 1, 2, 4} :
           slots = <<Slot(1, 2, 18, 22, c1, TRUE), Slot(2, 2, 18, 22, 2, TRUE),
                     Slot(1, 3, 18, 22, 2, TRUE)>>
    /\ blackouts = <<>>
    /\ \E s1 \in BookingStatuses, s2 \in BookingStatuses, s3 \in BookingStatuses :
           bookings = LoadBookings(s1, s2, s3)
    /\ venue_embeddings = <<>>
    /\ intent_embeddings = <<>>
    /\ travel_time_cache = {}
    /\ suggest_cache = <<>>
    /\ intent_vector_cache = <<>>
    /\ time_bucket = "weekday_evening"
    /\ next_id = [slot |-> 4, blackout |-> 1, booking |-> 7]
    /\ matches = MatchesOf(bookings)
    /\ available_venues_cache = <<>>
    /\ redis_up = TRUE
    /\ inflight = <<>>
    /\ haversine_cache = <<>>
    /\ settings = DefaultSettings
    /\ service = "running"
    /\ last = NoRun
    /\ prev = NoPrev

NextLoad ==
    \/ \E req \in LoadRequests : Suggest(req)
    \/ ExpireSuggest

SpecLoad == InitLoad /\ [][NextLoad]_vars

---------------------------------------------------------------------------
(* SpecBook: bookings made, confirmed and cancelled one call at a time      *)
(* against two slots, next to capacity changes by the admin                 *)

\* users 1 and 2 are the members of every match; user 3 is a stranger
BookUsers == {1, 3}

BookPayloads ==
    {BookingPayload(m, v, v, 3, 19) : m \in {1, 2}, v \in {1, 2}}
        \cup {BookingPayload(1, 1, 2, 3, 19), BookingPayload(9, 1, 1, 3, 19),
              BookingPayload(1, 9, 1, 3, 19)}

CapacityPayloads == {SlotPayload(2, 18, 22, c) : c \in {0, 1}}

InitBook ==
    /\ venues = [v \in {1, 2} |-> Venue(Bath, None, TRUE)]
    /\ slots = <<Slot(1, 2, 18, 22, 1, TRUE), Slot(2, 2, 18, 22, 2, TRUE)>>
    /\ blackouts = <<>>
    /\ bookings = <<>>
    /\ venue_embeddings = <<>>
    /\ intent_embeddings = <<>>
    /\ travel_time_cache = {}
    /\ suggest_cache = <<>>
    /\ intent_vector_cache = <<>>
    /\ time_bucket = "weekday_evening"
    /\ next_id = [slot |-> 3, blackout |-> 1, booking |-> 1]
    /\ matches = <<Match(1, 1, "confirmed"), Match(2, 2, "confirmed")>>
    /\ available_venues_cache = <<>>
    /\ redis_up = TRUE
    /\ inflight = <<>>
    /\ haversine_cache = <<>>
    /\ settings = DefaultSettings
    /\ service = "running"
    /\ last = NoRun
    /\ prev = NoPrev

NextBook ==
    \/ \E p \in BookPayloads, u \in BookUsers, stripe \in {"nokey", "ok", "error"} :
           create_booking(p, u, stripe)
    \/ \E b \in 1..MaxBookingId : confirm_booking(b)
    \/ \E b \in 1..MaxBookingId, u \in BookUsers : cancel_booking(b, u)
    \/ \E p \in CapacityPayloads : update_venue_slot(1, 1, p)

SpecBook == InitBook /\ [][NextBook]_vars

---------------------------------------------------------------------------
(* SpecInval: the two result caches filled by suggest and available calls,  *)
(* cleared by bookings and venue writes, with the Redis server up or down   *)

InvalRequests == {Req(3, 19, None, "drive", 45, "romantic", 2, NoSession)}

InvalPayloads == {BookingPayload(1, 1, 1, 3, 19), BookingPayload(2, 2, 2, 3, 19)}

InitInval ==
    /\ venues = [v \in {1, 2} |-> Venue(Bath, None, TRUE)]
    /\ slots = <<Slot(1, 2, 18, 22, 1, TRUE), Slot(2, 2, 18, 22, 2, TRUE)>>
    /\ blackouts = <<>>
    /\ bookings = <<>>
    /\ venue_embeddings = <<>>
    /\ intent_embeddings = <<>>
    /\ travel_time_cache = {}
    /\ suggest_cache = <<>>
    /\ intent_vector_cache = <<>>
    /\ time_bucket = "weekday_evening"
    /\ next_id = [slot |-> 3, blackout |-> 1, booking |-> 1]
    /\ matches = <<Match(1, 1, "confirmed"), Match(2, 2, "confirmed")>>
    /\ available_venues_cache = <<>>
    /\ redis_up = TRUE
    /\ inflight = <<>>
    /\ haversine_cache = <<>>
    /\ settings = DefaultSettings
    /\ service = "running"
    /\ last = NoRun
    /\ prev = NoPrev

NextInval ==
    \/ \E req \in InvalRequests : Suggest(req)
    \/ get_available_venues(AvailableQuery(3, 19, None, "drive", 45), ProviderAnswers)
    \/ \E p \in InvalPayloads, stripe \in {"nokey", "error"} : create_booking(p, 1, stripe)
    \/ \E a \in BOOLEAN : update_venue(2, a)
    \/ deactivate_venue(2)
    \/ RedisFlip

SpecInval == InitInval /\ [][NextInval]_vars

---------------------------------------------------------------------------
(* SpecRace: two get_travel_time() calls for venue 1 from the same origin,   *)
(* each in its own database session, interleaved at their awaits            *)

RaceCalls == {1, 2}

RaceModes == {"drive", "walk"}

RaceAnswers == {Answer("ok", 600), Answer("ok", 2730), Answer("non200", 0), Answer("timeout", 0)}

\* a travel_time_cache row for venue 1 and the origin of the calls
RaceRow(mode, minutes, fresh) ==
    [origin_hash |-> make_origin_hash(OriginLat, OriginLng), venue_id |-> 1, mode |-> mode,
     time_bucket |-> "weekday_evening", travel_minutes |-> minutes, fresh |-> fresh]

\* the rows under the key of call c
RaceKeyRows(c) ==
    CacheRowsFor(travel_time_cache, make_origin_hash(OriginLat, OriginLng), 1,
                 inflight[c].mode, time_bucket)

RaceUnchanged ==
    UNCHANGED <<venues, slots, blackouts, bookings, venue_embeddings, intent_embeddings,
                suggest_cache, intent_vector_cache, time_bucket, next_id, matches,
                available_venues_cache, redis_up, haversine_cache, settings, service,
                last, prev>>

\* get_travel_time(origin, destination, venue_id = 1, db, mode) is entered
Call(c, mode) ==
    /\ c \notin DOMAIN inflight
    /\ inflight' = With(inflight, c, [pc |-> "lookup", mode |-> mode, missed |-> FALSE,
                                      minutes |-> None, result |-> None, raised |-> "none"])
    /\ UNCHANGED travel_time_cache
    /\ RaceUnchanged

\* the cache lookup: a fresh row is returned, an expired one deleted and committed
Lookup(c) ==
    /\ c \in DOMAIN inflight
    /\ inflight[c].pc = "lookup"
    /\ \E found \in {RaceKeyRows(c)} :
           IF \E r \in found : r.fresh
           THEN /\ \E r \in {x \in found : x.fresh} :
                       inflight' = [inflight EXCEPT ![c].pc = "done",
                                                    ![c].result = r.travel_minutes]
                /\ UNCHANGED travel_time_cache
           ELSE /\ inflight' = [inflight EXCEPT ![c].pc = "fetch", ![c].missed = TRUE]
                /\ travel_time_cache' = travel_time_cache \ found
    /\ RaceUnchanged

\* the provider call and `if minutes is None: return None`
Fetch(c, answer) ==
    /\ c \in DOMAIN inflight
    /\ inflight[c].pc = "fetch"
    /\ \E f \in {IF settings.ROUTING_PROVIDER \in RoutingProviders
                   THEN fetch_tomtom(answer) ELSE [raised |-> TRUE, minutes |-> None]} :
           inflight' = [inflight EXCEPT
               ![c].pc = IF f.raised \/ f.minutes = None THEN "done" ELSE "insert",
               ![c].minutes = f.minutes,
               ![c].raised = IF f.raised THEN "provider" ELSE "none"]
    /\ UNCHANGED travel_time_cache
    /\ RaceUnchanged

\* db.add(TravelTimeCache(...)); await db.commit(): the INSERT meets uq_travel_time_cache
\* when a row with the key is there, and the IntegrityError leaves get_travel_time()
Insert(c) ==
    /\ c \in DOMAIN inflight
    /\ inflight[c].pc = "insert"
    /\ IF RaceKeyRows(c) # {}
       THEN /\ inflight' = [inflight EXCEPT ![c].pc = "done", ![c].raised = "IntegrityError"]
            /\ UNCHANGED travel_time_cache
       ELSE /\ inflight' = [inflight EXCEPT ![c].pc = "done",
                                            ![c].result = inflight[c].minutes]
            /\ travel_time_cache' =
                   travel_time_cache \cup {RaceRow(inflight[c].mode, inflight[c].minutes, TRUE)}
    /\ RaceUnchanged

InitRace ==
    /\ venues = <<Venue(Bath, OriginLat + 60, TRUE)>>
    /\ slots = <<Slot(1, 2, 18, 22, 2, TRUE)>>
    /\ blackouts = <<>>
    /\ bookings = <<>>
    /\ venue_embeddings = <<>>
    /\ intent_embeddings = <<>>
    /\ travel_time_cache \in {{}, {RaceRow("walk", 250, TRUE)}, {RaceRow("drive", 100, FALSE)}}
    /\ suggest_cache = <<>>
    /\ intent_vector_cache = <<>>
    /\ time_bucket = "weekday_evening"
    /\ next_id = [slot |-> 2, blackout |-> 1, booking |-> 1]
    /\ matches = <<>>
    /\ available_venues_cache = <<>>
    /\ redis_up = TRUE
    /\ inflight = <<>>
    /\ haversine_cache = <<>>
    /\ settings = DefaultSettings
    /\ service = "running"
    /\ last = NoRun
    /\ prev = NoPrev

NextRace ==
    \/ \E c \in RaceCalls, mode \in RaceModes : Call(c, mode)
    \/ \E c \in RaceCalls : Lookup(c)
    \/ \E c \in RaceCalls, answer \in RaceAnswers : Fetch(c, answer)
    \/ \E c \in RaceCalls : Insert(c)

SpecRace == InitRace /\ [][NextRace]_vars

---------------------------------------------------------------------------
(* SpecConfig: the service is started under drawn provider names and then   *)
(* answers suggest calls with an origin                                     *)

\* the names _build_provider() knows
EmbeddingProviders == {"local", "gemini"}

\* the names geocode() knows
GeocodingProviders == {"tomtom", "opencage", "mapbox"}

\* "openai" and "here" are names no service module knows
ConfigSettings ==
    [EMBEDDING_PROVIDER : {"local", "gemini", "openai"},
     ROUTING_PROVIDER : {"tomtom", "here"},
     GEOCODING_PROVIDER : {"tomtom", "here"}]

\* the import of app.main: app.services.embeddings runs _build_provider() at module
\* level, which raises ValueError for an unknown name; settings.ROUTING_PROVIDER and
\* settings.GEOCODING_PROVIDER are read by no module-level code and by no lifespan step
StartService ==
    /\ service = "stopped"
    /\ service' = IF settings.EMBEDDING_PROVIDER \in EmbeddingProviders
                  THEN "running" ELSE "failed"
    /\ Record([NoRun EXCEPT !.op = "start"])
    /\ UNCHANGED <<venues, slots, blackouts, bookings, venue_embeddings, intent_embeddings,
                   travel_time_cache, suggest_cache, intent_vector_cache, time_bucket, next_id,
                   matches, available_venues_cache, redis_up, inflight, haversine_cache,
                   settings>>

InitConfig ==
    /\ venues = <<Venue(Bath, OriginLat + 60, TRUE), Venue(Bath, None, TRUE)>>
    /\ slots = <<Slot(1, 2, 18, 22, 2, TRUE), Slot(2, 2, 18, 22, 2, TRUE)>>
    /\ blackouts = <<>>
    /\ bookings = <<>>
    /\ venue_embeddings = <<>>
    /\ intent_embeddings = <<>>
    /\ travel_time_cache = {}
    /\ suggest_cache = <<>>
    /\ intent_vector_cache = <<>>
    /\ time_bucket = "weekday_evening"
    /\ next_id = [slot |-> 3, blackout |-> 1, booking |-> 1]
    /\ matches = <<>>
    /\ available_venues_cache = <<>>
    /\ redis_up = TRUE
    /\ inflight = <<>>
    /\ haversine_cache = <<>>
    /\ settings \in ConfigSettings
    /\ service = "stopped"
    /\ last = NoRun
    /\ prev = NoPrev

NextConfig ==
    \/ StartService
    \/ service = "running" /\ \E req \in RouteRequests : Suggest(req)
    \/ service = "running" /\ ExpireSuggest
    \/ service = "running" /\ ExpireTravel

SpecConfig == InitConfig /\ [][NextConfig]_vars

---------------------------------------------------------------------------
(* SpecRetry: one call of _with_retry(self._call_embed, ...) by the hosted   *)
(* embedding provider, the provider answering each attempt as it likes       *)

\* _MAX_RETRIES
MaxRetries == 3

\* _BASE_DELAY in seconds
BaseDelay == 1

\* what one await of _call_embed does: it returns vectors, or raises an Exception
CallOutcomes ==
    {[kind |-> "ok", value |-> v] : v \in {"vectors_a", "vectors_b"}}
        \cup {[kind |-> "raise", value |-> e] :
                  e \in {"ServerError", "ClientError", "TimeoutError", "ConnectionError"}}

\* variant of the delay that does not grow with the attempt
retry_delay_flat(attempt) == BaseDelay

\* delay = _BASE_DELAY * (2 ** attempt)
retry_delay(attempt) == BaseDelay * 2 ^ attempt

RetryUnchanged ==
    UNCHANGED <<venues, slots, blackouts, bookings, venue_embeddings, intent_embeddings,
                travel_time_cache, suggest_cache, intent_vector_cache, time_bucket, next_id,
                matches, available_venues_cache, redis_up, haversine_cache, settings, service,
                last, prev>>

\* GeminiEmbeddingProvider.embed() enters _with_retry: last_exc = None, attempt = 0;
\* `outcomes` and `slept` keep what the attempts did and the sleeps that were made
RetryEnter ==
    /\ inflight = <<>>
    /\ inflight' = <<[pc |-> "call", attempt |-> 0, last_exc |-> "None", outcomes |-> <<>>,
                      slept |-> <<>>, result |-> "None", raised |-> "None"]>>
    /\ RetryUnchanged

\* try: return await coro_fn(...)  /  except Exception as exc: last_exc = exc
RetryAttempt(outcome) ==
    /\ inflight # <<>>
    /\ inflight[1].pc = "call"
    /\ inflight' = [inflight EXCEPT
           ![1].outcomes = Append(@, outcome),
           ![1].pc = IF outcome.kind = "ok" THEN "done" ELSE "sleep",
           ![1].result = IF outcome.kind = "ok" THEN outcome.value ELSE @,
           ![1].last_exc = IF outcome.kind = "ok" THEN @ ELSE outcome.value]
    /\ RetryUnchanged

\* await asyncio.sleep(delay), then the next pass of the loop, or `raise last_exc`
\* when range(_MAX_RETRIES) is used up
RetrySleep ==
    /\ inflight # <<>>
    /\ inflight[1].pc = "sleep"
    /\ inflight' = [inflight EXCEPT
           ![1].slept = Append(@, retry_delay(inflight[1].attempt)),
           ![1].attempt = @ + 1,
           ![1].pc = IF inflight[1].attempt + 1 < MaxRetries THEN "call" ELSE "done",
           ![1].raised = IF inflight[1].attempt + 1 < MaxRetries THEN @
                         ELSE inflight[1].last_exc]
    /\ RetryUnchanged

InitRetry ==
    /\ venues = <<>>
    /\ slots = <<>>
    /\ blackouts = <<>>
    /\ bookings = <<>>
    /\ venue_embeddings = <<>>
    /\ intent_embeddings = <<>>
    /\ travel_time_cache = {}
    /\ suggest_cache = <<>>
    /\ intent_vector_cache = <<>>
    /\ time_bucket = "weekday_evening"
    /\ next_id = [slot |-> 1, blackout |-> 1, booking |-> 1]
    /\ matches = <<>>
    /\ available_venues_cache = <<>>
    /\ redis_up = TRUE
    /\ inflight = <<>>
    /\ haversine_cache = <<>>
    /\ settings = [DefaultSettings EXCEPT !.EMBEDDING_PROVIDER = "gemini"]
    /\ service = "running"
    /\ last = NoRun
    /\ prev = NoPrev

NextRetry ==
    \/ RetryEnter
    \/ \E outcome \in CallOutcomes : RetryAttempt(outcome)
    \/ RetrySleep

\* the event loop runs the coroutine on: every await of the helper comes back
SpecRetry == InitRetry /\ [][NextRetry]_vars /\ WF_vars(NextRetry)

---------------------------------------------------------------------------
(* SpecBookRace: two create_booking calls that overlap, next to confirm,     *)
(* cancel and webhook calls; the capacities are not changed                  *)

BookRaceCalls == {1, 2}

BookRacePayloads == {BookingPayload(m, v, v, 3, 19) : m \in {1, 2}, v \in {1, 2}}

InitBookRace ==
    /\ venues = [v \in {1, 2} |-> Venue(Bath, None, TRUE)]
    /\ slots = <<Slot(1, 2, 18, 22, 1, TRUE), Slot(2, 2, 18, 22, 2, TRUE)>>
    /\ blackouts = <<>>
    /\ bookings = <<>>
    /\ venue_embeddings = <<>>
    /\ intent_embeddings = <<>>
    /\ travel_time_cache = {}
    /\ suggest_cache = <<>>
    /\ intent_vector_cache = <<>>
    /\ time_bucket = "weekday_evening"
    /\ next_id = [slot |-> 3, blackout |-> 1, booking |-> 1]
    /\ matches = <<Match(1, 1, "confirmed"), Match(1, 1, "confirmed")>>
    /\ available_venues_cache = <<>>
    /\ redis_up = TRUE
    /\ inflight = <<>>
    /\ haversine_cache = <<>>
    /\ settings = DefaultSettings
    /\ service = "running"
    /\ last = NoRun
    /\ prev = NoPrev

NextBookRace ==
    \/ \E c \in BookRaceCalls, p \in BookRacePayloads, stripe \in {"nokey", "ok"} :
           BeginCreate(c, p, 1, stripe)
    \/ \E c \in BookRaceCalls : FinishCreate(c)
    \/ \E b \in 1..MaxBookingId : confirm_booking(b)
    \/ \E b \in 1..MaxBookingId : cancel_booking(b, 1)
    \/ \E b \in 1..MaxBookingId :
           stripe_webhook(StripeEvent("payment_intent.succeeded", PaymentIntentId(b)), TRUE)

SpecBookRace == InitBookRace /\ [][NextBookRace]_vars

---------------------------------------------------------------------------
(* SpecHook: bookings paid through Stripe, confirmed by hand or by webhook   *)
(* events that may come late or more than once, and cancelled               *)

HookPayloads == {BookingPayload(1, 1, 1, 3, 19)}

\* payment_intent.succeeded for the intents of bookings 1 and 2, and another event type
HookEvents ==
    {StripeEvent("payment_intent.succeeded", PaymentIntentId(b)) : b \in {1, 2}}
        \cup {StripeEvent("payment_intent.payment_failed", PaymentIntentId(2))}

\* booking 1 of match 2 was paid through intent 1 and has been refunded
InitHook ==
    /\ venues = [v \in {1, 2} |-> Venue(Bath, None, TRUE)]
    /\ slots = <<Slot(1, 2, 18, 22, 2, TRUE), Slot(2, 2, 18, 22, 2, TRUE)>>
    /\ blackouts = <<>>
    /\ bookings = <<[Booking(2, 2, 2, 3, "refunded")
                        EXCEPT !.stripe_payment_intent_id = PaymentIntentId(1)]>>
    /\ venue_embeddings = <<>>
    /\ intent_embeddings = <<>>
    /\ travel_time_cache = {}
    /\ suggest_cache = <<>>
    /\ intent_vector_cache = <<>>
    /\ time_bucket = "weekday_evening"
    /\ next_id = [slot |-> 3, blackout |-> 1, booking |-> 2]
    /\ matches = <<Match(1, 1, "confirmed"), Match(2, 2, "completed")>>
    /\ available_venues_cache = <<>>
    /\ redis_up = TRUE
    /\ inflight = <<>>
    /\ haversine_cache = <<>>
    /\ settings = DefaultSettings
    /\ service = "running"
    /\ last = NoRun
    /\ prev = NoPrev

NextHook ==
    \/ \E p \in HookPayloads, stripe \in {"nokey", "ok", "error"} : create_booking(p, 1, stripe)
    \/ \E b \in 1..MaxBookingId : confirm_booking(b)
    \/ \E b \in 1..MaxBookingId : cancel_booking(b, 1)
    \/ \E e \in HookEvents, sig_ok \in BOOLEAN : stripe_webhook(e, sig_ok)

SpecHook == InitHook /\ [][NextHook]_vars

---------------------------------------------------------------------------
(* SpecAvailCache: GET /venues/available without an origin on two           *)
(* Wednesdays and a Thursday, while the admin adds and removes blackouts    *)

AvailCacheQueries == {AvailableQuery(d, 19, None, "drive", 45) : d \in {3, 4, 10}}

AvailCacheBlackouts == {BlackoutPayload(10, 10), BlackoutPayload(3, 4)}

InitAvailCache ==
    /\ venues = [v \in {1, 2} |-> Venue(Bath, None, TRUE)]
    /\ slots = <<Slot(1, 2, 18, 22, 2, TRUE), Slot(2, 2, 18, 22, 2, TRUE),
                 Slot(1, 3, 18, 22, 2, TRUE)>>
    /\ blackouts = <<>>
    /\ bookings = <<>>
    /\ venue_embeddings = <<>>
    /\ intent_embeddings = <<>>
    /\ travel_time_cache = {}
    /\ suggest_cache = <<>>
    /\ intent_vector_cache = <<>>
    /\ time_bucket = "weekday_evening"
    /\ next_id = [slot |-> 4, blackout |-> 1, booking |-> 1]
    /\ matches = <<>>
    /\ available_venues_cache = <<>>
    /\ redis_up = TRUE
    /\ inflight = <<>>
    /\ haversine_cache = <<>>
    /\ settings = DefaultSettings
    /\ service = "running"
    /\ last = NoRun
    /\ prev = NoPrev

NextAvailCache ==
    \/ \E q \in AvailCacheQueries : get_available_venues(q, ProviderAnswers)
    \/ ExpireAvailable
    \/ \E p \in AvailCacheBlackouts : add_venue_blackout(1, p)
    \/ \E i \in DOMAIN blackouts : delete_venue_blackout(1, i)

SpecAvailCache == InitAvailCache /\ [][NextAvailCache]_vars

---------------------------------------------------------------------------
(* SpecHaversine: GET /venues/available from one origin on a Wednesday and  *)
(* a Thursday; venue 2 is open on Thursdays only, both venues lie within    *)
(* the radius, venue 3 lies outside it                                      *)

HaversineQueries == {AvailableQuery(d, 19, OriginLat, "drive", 10) : d \in {3, 4}}

HaversineAnswers == {Answer("ok", 600), Answer("non200", 0)}

InitHaversine ==
    /\ venues = <<Venue(Bath, OriginLat + 60, TRUE), Venue(Bath, OriginLat + 70, TRUE),
                  Venue(Bath, OriginLat - 900, TRUE)>>
    /\ slots = <<Slot(1, 2, 18, 22, 2, TRUE), Slot(1, 3, 18, 22, 2, TRUE),
                 Slot(2, 3, 18, 22, 2, TRUE), Slot(3, 3, 18, 22, 2, TRUE)>>
    /\ blackouts = <<>>
    /\ bookings = <<>>
    /\ venue_embeddings = <<>>
    /\ intent_embeddings = <<>>
    /\ travel_time_cache = {}
    /\ suggest_cache = <<>>
    /\ intent_vector_cache = <<>>
    /\ time_bucket = "weekday_evening"
    /\ next_id = [slot |-> 5, blackout |-> 1, booking |-> 1]
    /\ matches = <<>>
    /\ available_venues_cache = <<>>
    /\ redis_up = TRUE
    /\ inflight = <<>>
    /\ haversine_cache = <<>>
    /\ settings = DefaultSettings
    /\ service = "running"
    /\ last = NoRun
    /\ prev = NoPrev

NextHaversine ==
    \/ \E q \in HaversineQueries : get_available_venues(q, HaversineAnswers)
    \/ ExpireAvailable
    \/ ExpireTravel

SpecHaversine == InitHaversine /\ [][NextHaversine]_vars

---------------------------------------------------------------------------
(* SpecStale: a suggest call whose Redis write is a step of its own, beside *)
(* whole suggest calls and bookings of venue 1's two tables                 *)

StaleRequests == {Req(3, 19, None, "drive", 45, "romantic", 2, NoSession)}

StalePayloads == {BookingPayload(1, 1, 1, 3, 19), BookingPayload(2, 1, 1, 3, 19)}

InitStale ==
    /\ venues = [v \in {1, 2} |-> Venue(Bath, None, TRUE)]
    /\ slots = <<Slot(1, 2, 18, 22, 2, TRUE), Slot(2, 2, 18, 22, 2, TRUE)>>
    /\ blackouts = <<>>
    /\ bookings = <<>>
    /\ venue_embeddings = <<>>
    /\ intent_embeddings = <<>>
    /\ travel_time_cache = {}
    /\ suggest_cache = <<>>
    /\ intent_vector_cache = <<>>
    /\ time_bucket = "weekday_evening"
    /\ next_id = [slot |-> 3, blackout |-> 1, booking |-> 1]
    /\ matches = <<Match(1, 1, "confirmed"), Match(2, 2, "confirmed")>>
    /\ available_venues_cache = <<>>
    /\ redis_up = TRUE
    /\ inflight = <<>>
    /\ haversine_cache = <<>>
    /\ settings = DefaultSettings
    /\ service = "running"
    /\ last = NoRun
    /\ prev = NoPrev

NextStale ==
    \/ \E req \in StaleRequests : SuggestBegin(1, req)
    \/ SuggestStore(1)
    \/ \E req \in StaleRequests : Suggest(req)
    \/ \E p \in StalePayloads, u \in {1, 2}, stripe \in {"nokey", "error"} :
           create_booking(p, u, stripe)
    \/ ExpireSuggest

SpecStale == InitStale /\ [][NextStale]_vars

---------------------------------------------------------------------------
(* SpecKey: suggest calls that differ in one field each (the origin absent  *)
(* or at latitude 0.0, longitude 0.0; the date; top_n; the session) over a  *)
(* catalogue of venues without coordinates                                  *)

KeyRequests ==
    {Req(d, 19, None, "drive", 45, "romantic", n, s) :
         d \in {3, 10}, n \in {1, 2}, s \in {NoSession, "s1"}}
    \cup {[Req(3, 19, 0, "drive", 45, "romantic", 2, NoSession) EXCEPT !.origin_lng = 0]}

InitKey ==
    /\ venues = [v \in {1, 2} |-> Venue(Bath, None, TRUE)]
    /\ slots = <<Slot(1, 2, 18, 22, 2, TRUE), Slot(2, 2, 18, 22, 2, TRUE)>>
    /\ blackouts = <<>>
    /\ bookings = <<>>
    /\ venue_embeddings = <<>>
    /\ intent_embeddings = <<>>
    /\ travel_time_cache = {}
    /\ suggest_cache = <<>>
    /\ intent_vector_cache = <<>>
    /\ time_bucket = "weekday_evening"
    /\ next_id = [slot |-> 3, blackout |-> 1, booking |-> 1]
    /\ matches = <<>>
    /\ available_venues_cache = <<>>
    /\ redis_up = TRUE
    /\ inflight = <<>>
    /\ haversine_cache = <<>>
    /\ settings = DefaultSettings
    /\ service = "running"
    /\ last = NoRun
    /\ prev = NoPrev

NextKey ==
    \/ \E req \in KeyRequests : Suggest(req)
    \/ ExpireSuggest

SpecKey == InitKey /\ [][NextKey]_vars

---------------------------------------------------------------------------
(* SpecStages: suggest calls with and without an origin just north of the   *)
(* equator; venue 1 lies on the equator (lat 0.0), venue 2 north of the     *)
(* origin, venue 3 has no coordinates, venue 4 lies outside the radius      *)

StagesOriginLat == 60

StagesRequests ==
    {Req(3, 19, o, "drive", 10, "romantic", n, NoSession) :
         o \in {None, StagesOriginLat}, n \in {2, 4}}

InitStages ==
    /\ venues = <<Venue(Bath, 0, TRUE), Venue(Bath, StagesOriginLat + 70, TRUE),
                  Venue(Bath, None, TRUE), Venue(Bath, StagesOriginLat + 900, TRUE)>>
    /\ slots = <<Slot(1, 2, 18, 22, 2, TRUE), Slot(2, 2, 18, 22, 2, TRUE),
                 Slot(3, 2, 18, 22, 2, TRUE), Slot(4, 2, 18, 22, 2, TRUE)>>
    /\ blackouts = <<>>
    /\ bookings = <<>>
    /\ venue_embeddings = <<>>
    /\ intent_embeddings = <<>>
    /\ travel_time_cache = {}
    /\ suggest_cache = <<>>
    /\ intent_vector_cache = <<>>
    /\ time_bucket = "weekday_evening"
    /\ next_id = [slot |-> 5, blackout |-> 1, booking |-> 1]
    /\ matches = <<>>
    /\ available_venues_cache = <<>>
    /\ redis_up = TRUE
    /\ inflight = <<>>
    /\ haversine_cache = <<>>
    /\ settings = DefaultSettings
    /\ service = "running"
    /\ last = NoRun
    /\ prev = NoPrev

NextStages ==
    \/ \E req \in StagesRequests : Suggest(req)
    \/ ExpireSuggest
    \/ ExpireTravel

SpecStages == InitStages /\ [][NextStages]_vars

---------------------------------------------------------------------------
(* Properties *)

\* the venue ids of the latest response
SuggestedIds == {last.suggestions[i].venue_id : i \in DOMAIN last.suggestions}

\* the latest operation is a suggest call that ran the pipeline and ranked candidates
RankedRun ==
    /\ last.op = "suggest"
    /\ ~last.hit
    /\ last.status = "ok"
    /\ last.candidates # <<>>

\* C1: after any sequence of catalogue writes and suggest calls, every venue of a
\* suggest response, computed or served from the cache, is active, has an active slot
\* matching the requested weekday and time, and has no blackout covering the date.
SuggestedVenuesAreAvailable ==
    (last.op = "suggest" /\ last.status = "ok") =>
        \A v \in SuggestedIds :
            /\ venues[v].is_active
            /\ \E s \in DOMAIN slots :
                   /\ slots[s].venue_id = v
                   /\ slots[s].is_active
                   /\ slots[s].weekday = Weekday(last.req.date)
                   /\ slots[s].start_time <= last.req.time
                   /\ last.req.time < slots[s].end_time
            /\ \A b \in DOMAIN blackouts :
                   ~(/\ blackouts[b].venue_id = v
                     /\ blackouts[b].start_date <= last.req.date
                     /\ last.req.date <= blackouts[b].end_date)

\* C2: a suggest call that directly follows a successful call with the same request
\* (no write, no expiry in between) returns the same suggestions and makes no
\* catalogue, routing or embedding call, whatever the first call returned, an empty
\* result included.
RepeatedCallIsServedFromCache ==
    (last.op = "suggest" /\ prev.op = "suggest" /\ prev.status = "ok" /\ prev.req = last.req) =>
        /\ last.calls = {}
        /\ last.suggestions = prev.suggestions

\* C3: every ranked candidate's final score is similarity * (1 + load * 0.3), which
\* lies between similarity and 1.3 * similarity; the ranking and the response are in
\* ascending order of it; A (0.10, load 0) and B (0.08, load 0.8) rank B first.
FinalScoreIsLoadPenalisedSimilarity ==
    RankedRun =>
        /\ \A i \in DOMAIN last.scored :
               LET e == last.scored[i]
                   sim == last.sims[e.vid]
                   load == last.loads[e.vid]
               IN  /\ RatEq(e.score, <<sim * (10 * load[2] + 3 * load[1]), 1000 * load[2]>>)
                   /\ RatLe(<<sim, 100>>, e.score)
                   /\ RatLe(e.score, <<13 * sim, 1000>>)
        /\ \A i \in DOMAIN last.scored, j \in DOMAIN last.scored :
               i < j => RatLe(last.scored[i].score, last.scored[j].score)
        /\ \A i \in DOMAIN last.suggestions :
               /\ last.suggestions[i].venue_id = last.scored[i].vid
               /\ last.suggestions[i].final_score = Round4(last.scored[i].score)
        /\ \A a \in DOMAIN last.scored, b \in DOMAIN last.scored :
               (/\ last.sims[last.scored[a].vid] = 10
                /\ last.loads[last.scored[a].vid][1] = 0
                /\ last.sims[last.scored[b].vid] = 8
                /\ RatEq(last.loads[last.scored[b].vid], <<4, 5>>)) => b < a

\* C3 witness: a ranking holding A (0.10, load 0) and B (0.08, load 4/5), B before A
ScenarioBBeforeA ==
    /\ RankedRun
    /\ \E a \in DOMAIN last.scored, b \in DOMAIN last.scored :
           /\ b < a
           /\ last.sims[last.scored[a].vid] = 10
           /\ last.loads[last.scored[a].vid][1] = 0
           /\ last.sims[last.scored[b].vid] = 8
           /\ RatEq(last.loads[last.scored[b].vid], <<4, 5>>)

\* C4: of two ranked candidates with the same similarity, the one with the lower
\* load comes first, for every similarity value and every assignment of venue ids.
EqualSimilarityLowerLoadFirst ==
    RankedRun =>
        \A i \in DOMAIN last.scored, j \in DOMAIN last.scored :
            (/\ last.sims[last.scored[i].vid] = last.sims[last.scored[j].vid]
             /\ RatLt(last.loads[last.scored[i].vid], last.loads[last.scored[j].vid])) => i < j

\* C5: a candidate without a venue_embeddings row gets similarity exactly 0.5 and
\* stays in the ranking: the ranked venues are the candidates, all of them, whether
\* none or only some of them have an embedding.
UnembeddedCandidatesAreRanked ==
    RankedRun =>
        /\ {last.scored[i].vid : i \in DOMAIN last.scored}
               = {last.candidates[i].venue_id : i \in DOMAIN last.candidates}
        /\ Len(last.scored) = Len(last.candidates)
        /\ \A i \in DOMAIN last.scored :
               LET e == last.scored[i]
               IN  e.vid \notin DOMAIN venue_embeddings =>
                       /\ e.vid \in DOMAIN last.sims
                       /\ last.sims[e.vid] = 50
                       /\ RatLe(<<50, 100>>, e.score)
                       /\ RatLe(e.score, <<65, 100>>)
        /\ \A i \in DOMAIN last.suggestions :
               last.suggestions[i].venue_id \notin DOMAIN venue_embeddings =>
                   last.suggestions[i].similarity_score = 5000

\* C5 witness: a response holding a venue without an embedding next to candidates
\* that have one
UnembeddedVenueSuggested ==
    /\ RankedRun
    /\ \E v \in SuggestedIds : v \notin DOMAIN venue_embeddings
    /\ \E i \in DOMAIN last.candidates : last.candidates[i].venue_id \in DOMAIN venue_embeddings

\* C6: a slot window contains its start time and not its end time: a venue free of
\* blackouts is suggested exactly when one of its active slots of the requested
\* weekday has start_time <= time < end_time.
SlotWindowIsHalfOpen ==
    last.op = "suggest" =>
        \A v \in DOMAIN venues :
            (\A b \in DOMAIN blackouts :
                 ~(/\ blackouts[b].venue_id = v
                   /\ blackouts[b].start_date <= last.req.date
                   /\ last.req.date <= blackouts[b].end_date))
            => (v \in SuggestedIds <=>
                    \E s \in DOMAIN slots :
                        /\ slots[s].venue_id = v
                        /\ slots[s].is_active
                        /\ slots[s].weekday = Weekday(last.req.date)
                        /\ slots[s].start_time <= last.req.time
                        /\ last.req.time < slots[s].end_time)

\* C6 witness: a pipeline response at time t that holds a venue whose slot starts
\* at t and lacks a venue whose slot ends at t
StartIncludedEndExcluded ==
    /\ last.op = "suggest"
    /\ ~last.hit
    /\ \E s \in DOMAIN slots :
           /\ slots[s].weekday = Weekday(last.req.date)
           /\ slots[s].start_time = last.req.time
           /\ slots[s].venue_id \in SuggestedIds
    /\ \E s \in DOMAIN slots :
           /\ slots[s].weekday = Weekday(last.req.date)
           /\ slots[s].end_time = last.req.time
           /\ slots[s].venue_id \notin SuggestedIds

\* C7: a blackout with start_date = end_date = D keeps its venue out of the
\* suggestions for D; for D-1 and D+1 the venue is suggested as far as its slots and
\* its other blackouts allow, and every other venue is suggested as far as its own
\* slots and blackouts allow.
OneDayBlackoutRemovesOneDay ==
    last.op = "suggest" =>
        \A b \in DOMAIN blackouts :
            blackouts[b].start_date = blackouts[b].end_date =>
                LET D == blackouts[b].start_date
                    HasSlot(v) ==
                        \E s \in DOMAIN slots :
                            /\ slots[s].venue_id = v
                            /\ slots[s].is_active
                            /\ slots[s].weekday = Weekday(last.req.date)
                            /\ slots[s].start_time <= last.req.time
                            /\ last.req.time < slots[s].end_time
                    Covered(v) ==
                        \E c \in DOMAIN blackouts \ {b} :
                            /\ blackouts[c].venue_id = v
                            /\ blackouts[c].start_date <= last.req.date
                            /\ last.req.date <= blackouts[c].end_date
                IN  /\ last.req.date = D => blackouts[b].venue_id \notin SuggestedIds
                    /\ (last.req.date \in {D - 1, D + 1}
                            /\ HasSlot(blackouts[b].venue_id)
                            /\ ~Covered(blackouts[b].venue_id))
                           => blackouts[b].venue_id \in SuggestedIds
                    /\ \A w \in DOMAIN venues \ {blackouts[b].venue_id} :
                           (HasSlot(w) /\ ~Covered(w)) => w \in SuggestedIds

\* C7 witness: a response for D without the blacked-out venue and with another one,
\* right after a response for D-1 that held the venue
BlackoutDayAfterOpenDay ==
    /\ last.op = "suggest"
    /\ prev.op = "suggest"
    /\ \E b \in DOMAIN blackouts :
           /\ blackouts[b].start_date = blackouts[b].end_date
           /\ last.req.date = blackouts[b].start_date
           /\ prev.req.date = blackouts[b].start_date - 1
           /\ blackouts[b].venue_id \notin SuggestedIds
           /\ SuggestedIds # {}
           /\ \E i \in DOMAIN prev.suggestions :
                  prev.suggestions[i].venue_id = blackouts[b].venue_id

\* C8: for every travel mode, an unknown one included (it gets the drive speed), and
\* max_travel_minutes m1 <= m2: the radius for m1 is at most the radius for m2 and
\* the venues the prefilter keeps for m1 are among those it keeps for m2.
RadiusAndPrefilterMonotone ==
    last.op = "prefilter" =>
        LET mode == last.req.travel_mode
            m == last.req.max_travel_minutes
            all == SortedSeq(DOMAIN venues)
        IN  /\ \A m2 \in GeoMinutes :
                   /\ m <= m2 =>
                          /\ max_radius_dm(mode, m) <= max_radius_dm(mode, m2)
                          /\ Range(last.geo)
                                 \subseteq Range(prefilter_by_distance(all, OriginLat, mode, m2))
                   /\ m2 <= m =>
                          /\ max_radius_dm(mode, m2) <= max_radius_dm(mode, m)
                          /\ Range(prefilter_by_distance(all, OriginLat, mode, m2))
                                 \subseteq Range(last.geo)
            /\ mode \notin {"walk", "drive", "transit"} =>
                   /\ max_radius_dm(mode, m) = max_radius_dm("drive", m)
                   /\ last.geo = prefilter_by_distance(all, OriginLat, "drive", m)

\* C8 witness: the prefilter for an unknown mode keeps some venue, and keeps more
\* venues for a larger max_travel_minutes
UnknownModePrefilterGrows ==
    /\ last.op = "prefilter"
    /\ last.req.travel_mode = "hover"
    /\ last.geo # <<>>
    /\ \E m2 \in GeoMinutes :
           /\ last.req.max_travel_minutes < m2
           /\ Range(last.geo) # Range(prefilter_by_distance(SortedSeq(DOMAIN venues), OriginLat,
                                                            "hover", m2))

\* C9: a computed response holds exactly min(top_n, number of candidate venues)
\* suggestions, no venue id twice, also for a venue with several matching slots, and
\* no candidate left out scores lower than a suggested one.
TopNLowestDistinct ==
    (last.op = "suggest" /\ ~last.hit /\ last.status = "ok") =>
        /\ Len(last.suggestions)
               = Min(last.req.top_n,
                     Cardinality({last.candidates[i].venue_id : i \in DOMAIN last.candidates}))
        /\ \A i \in DOMAIN last.suggestions, j \in DOMAIN last.suggestions :
               i # j => last.suggestions[i].venue_id # last.suggestions[j].venue_id
        /\ \A i \in DOMAIN last.scored, k \in DOMAIN last.scored :
               (last.scored[i].vid \in SuggestedIds /\ last.scored[k].vid \notin SuggestedIds)
                   => RatLe(last.scored[i].score, last.scored[k].score)

\* C9 witness: fewer suggestions than candidates, one of them a venue with two
\* matching slots
TopNCutsWithTwoSlotVenue ==
    /\ RankedRun
    /\ last.req.top_n < Len(last.candidates)
    /\ \E v \in SuggestedIds :
           Cardinality({s \in DOMAIN slots :
               /\ slots[s].venue_id = v
               /\ slots[s].weekday = Weekday(last.req.date)
               /\ slots[s].start_time <= last.req.time
               /\ last.req.time < slots[s].end_time}) >= 2

\* C10: when the routing provider answers a venue's request with a non-200 status or
\* a malformed payload, the request still succeeds, that venue is not among the
\* candidates, every venue with a good answer within the limit is, and no
\* travel_time_cache row is written for the failed venue.
FailedRouteDropsOnlyThatVenue ==
    (last.op = "suggest" /\ ~last.hit) =>
        \A v \in DOMAIN last.answers :
            last.answers[v].kind \in {"non200", "missing_key", "not_json"} =>
                /\ last.status = "ok"
                /\ \A i \in DOMAIN last.candidates : last.candidates[i].venue_id # v
                /\ \A w \in DOMAIN last.answers :
                       (/\ last.answers[w].kind = "ok"
                        /\ last.answers[w].seconds <= 60 * last.req.max_travel_minutes)
                           => \E i \in DOMAIN last.candidates : last.candidates[i].venue_id = w
                /\ \A r \in travel_time_cache : r.venue_id # v

\* C11: a routing call that times out (or cannot connect) drops its venue and an
\* embedding provider that raises leaves the candidates on the neutral score; in
\* neither case does suggest_venues raise.
ProviderFailureNeverSurfaces ==
    (/\ last.op = "suggest"
     /\ ~last.hit
     /\ \A w \in DOMAIN last.answers : last.answers[w].kind # "not_json") =>
        /\ \A v \in DOMAIN last.answers :
               last.answers[v].kind = "timeout" =>
                   /\ last.raised # "routing"
                   /\ last.status = "ok"
                   /\ \A i \in DOMAIN last.candidates : last.candidates[i].venue_id # v
        /\ last.raised # "embedding"

\* C12: a failure of the cache store never leaves RedisCache: a suggest call made
\* while the store fails is a miss that runs the pipeline, raises nothing on account of
\* the cache, and returns what the same request returned against a cache without its
\* entry.
CacheFailureIsAMiss ==
    /\ (last.op = "suggest" /\ ~last.up) =>
           /\ ~last.hit
           /\ last.raised # "cache"
           /\ "catalogue" \in last.calls
    /\ (/\ last.op = "suggest" /\ ~last.up /\ last.status = "ok"
        /\ prev.op = "suggest" /\ prev.up /\ ~prev.hit /\ prev.status = "ok"
        /\ prev.req = last.req) => last.suggestions = prev.suggestions

\* C12 witness: a request answered through the pipeline while the store fails, right
\* after the same request was computed and stored with the store healthy
FailingStoreRecomputes ==
    /\ last.op = "suggest" /\ ~last.up /\ last.status = "ok"
    /\ last.suggestions # <<>>
    /\ prev.op = "suggest" /\ prev.up /\ ~prev.hit /\ prev.status = "ok"
    /\ prev.req = last.req
    /\ suggest_cache_key(last.req) \in DOMAIN suggest_cache

\* C13: when the slot, blackout, distance or travel-time filter leaves no candidate,
\* suggest_venues returns the empty list with the intent text and raises nothing, and
\* the endpoint answers 404, which it answers in no other case; a matcher exception is
\* answered with 500.
EmptyResultIsNotAnError ==
    (last.op = "suggest" /\ ~last.hit) =>
        /\ (/\ last.candidates = <<>>
            /\ \A v \in DOMAIN last.answers :
                   last.answers[v].kind \notin {"not_json", "timeout"}) =>
               /\ last.status = "ok"
               /\ last.raised = "none"
               /\ last.suggestions = <<>>
               /\ last.intent_text = IntentOf(last.req)
               /\ last.http = 404
        /\ (last.avail = <<>> \/ last.geo = <<>>) => last.candidates = <<>>
        /\ last.http = 404 <=> (last.status = "ok" /\ last.suggestions = <<>>)
        /\ last.http = 500 <=> last.status = "error"

\* C13 witness: venues passed the slot, blackout and distance filters and every route
\* was too long or unknown: an empty result answered with 404
AllRoutesTooLong ==
    /\ last.op = "suggest" /\ ~last.hit
    /\ last.geo # <<>>
    /\ \E v \in DOMAIN last.answers : last.answers[v].kind = "ok"
    /\ last.candidates = <<>>
    /\ last.status = "ok"
    /\ last.http = 404

\* C14: every suggest call that returns has appended exactly one intent_embeddings
\* row, holding the request's intent text and session id, whether it was served from
\* the cache, whether any candidate survived and whether any candidate has an embedding.
EveryInvocationIsLogged ==
    (last.op = "suggest" /\ last.status = "ok") =>
        /\ last.logged = 1
        /\ intent_embeddings # <<>>
        /\ intent_embeddings[Len(intent_embeddings)]
               = [session_id |-> last.req.session_id, intent_text |-> IntentOf(last.req)]

\* C15: when the commit of the intent log row fails, suggest_venues still returns the
\* suggestions the ranking yields (same venues, order and scores) and the table holds
\* no row of the failed write.
FailedLogWriteKeepsResponse ==
    (last.op = "suggest" /\ last.log_failed) =>
        /\ last.status = "ok"
        /\ last.logged = 0
        /\ Len(last.suggestions) = Min(last.req.top_n, Len(last.scored))
        /\ \A i \in DOMAIN last.suggestions :
               /\ last.suggestions[i].venue_id = last.scored[i].vid
               /\ last.suggestions[i].final_score = Round4(last.scored[i].score)

\* C16: a candidate's load factor is the number of pending or confirmed bookings on
\* its matching slot and the requested date, divided by the slot's max_tables_for_two
\* and cut at 1; bookings that are cancelled or refunded, of another date or of another
\* slot do not count; without a matching active slot it is 0; for every capacity, 0
\* included, it lies in [0, 1]; the response carries it rounded to 4 places.
LoadFactorIsClampedBookingShare ==
    RankedRun =>
        \A k \in DOMAIN last.candidates :
            LET v == last.candidates[k].venue_id
                matching == {i \in DOMAIN slots :
                                /\ slots[i].venue_id = v
                                /\ slots[i].is_active
                                /\ slots[i].weekday = Weekday(last.req.date)
                                /\ slots[i].start_time <= last.req.time
                                /\ last.req.time < slots[i].end_time}
                load == last.loads[v]
            IN  /\ RatLe(<<0, 1>>, load) /\ RatLe(load, <<1, 1>>)
                /\ matching = {} => RatEq(load, <<0, 1>>)
                /\ matching # {} =>
                       \E i \in matching :
                           LET n == Cardinality({b \in DOMAIN bookings :
                                        /\ bookings[b].slot_id = i
                                        /\ bookings[b].booked_date = DateStr(last.req.date)
                                        /\ bookings[b].status \in {"confirmed", "pending"}})
                               cap == slots[i].max_tables_for_two
                           IN  /\ last.slot_of[v] = i
                               /\ (cap >= 1 /\ n <= cap) => RatEq(load, <<n, cap>>)
                               /\ (cap >= 1 /\ n > cap) => RatEq(load, <<1, 1>>)
                               /\ (cap = 0 /\ n = 0) => RatEq(load, <<0, 1>>)
                               /\ (cap = 0 /\ n > 0) => RatEq(load, <<1, 1>>)
                /\ \A j \in DOMAIN last.suggestions :
                       last.suggestions[j].venue_id = v =>
                           last.suggestions[j].load_factor = Round4(load)

\* C16 witness: a ranked venue whose slot and date hold a cancelled or refunded
\* booking next to active ones, fewer than the capacity
PartLoadBesideCancelled ==
    /\ RankedRun
    /\ \E v \in SuggestedIds :
           /\ RatLt(<<0, 1>>, last.loads[v])
           /\ RatLt(last.loads[v], <<1, 1>>)
           /\ \E b \in DOMAIN bookings :
                  /\ bookings[b].slot_id = last.slot_of[v]
                  /\ bookings[b].booked_date = DateStr(last.req.date)
                  /\ bookings[b].status \in {"cancelled", "refunded"}

\* C17: with booking calls running one at a time, the pending and confirmed bookings of
\* a slot and date never outnumber the slot's max_tables_for_two, and a create_booking
\* call made once they have reached it is answered 409 and adds no booking.
CapacityIsNeverExceeded ==
    /\ \A i \in DOMAIN slots :
           CountBooked(i, DateStr(3)) <= slots[i].max_tables_for_two
    /\ (last.op = "create_booking" /\ last.http = 201) =>
           \E b \in {next_id.booking - 1} :
               CountBooked(bookings[b].slot_id, bookings[b].booked_date) - 1
                   < slots[bookings[b].slot_id].max_tables_for_two

\* a create_booking, update_venue or deactivate_venue call that returned successfully
\* while the Redis server answered
InvalidatingWrite(run) ==
    /\ run.op \in {"create_booking", "update_venue", "deactivate_venue"}
    /\ run.status = "ok"
    /\ run.up

\* C20: once create_booking, update_venue or deactivate_venue has returned successfully
\* with the cache store healthy, the suggest_results and available_venues caches hold
\* no entry from before the write, and the suggest or available call that comes next
\* is answered from the catalogue and not from a cache.
WriteLeavesNoOlderCacheEntry ==
    /\ InvalidatingWrite(last) => (suggest_cache = <<>> /\ available_venues_cache = <<>>)
    /\ (last.op \in {"suggest", "available"} /\ InvalidatingWrite(prev)) =>
           (~last.hit /\ (last.op = "suggest" => "catalogue" \in last.calls))

\* C20 witness: a successful write that found an entry in each of the two caches
WriteClearedBothCaches ==
    /\ InvalidatingWrite(last)
    /\ last.cleared = 2

\* a suggest call with an origin that went through the travel-time loop
RoutedRun == last.op = "suggest" /\ ~last.hit /\ last.raised # "cache" /\ HasOrigin(last.req)

\* the rows of `cache` under the key of the last call for venue v in the current bucket
KeyRows(cache, v) ==
    {r \in cache : /\ r.origin_hash = make_origin_hash(last.req.origin_lat, last.req.origin_lng)
                   /\ r.venue_id = v
                   /\ r.mode = last.req.travel_mode
                   /\ r.time_bucket = time_bucket}

\* C19: get_travel_time answers from the row of (origin hash, venue, mode, current time
\* bucket) while that row is younger than the TTL, without a provider call; without
\* such a row it asks the provider once, and a successful answer leaves one fresh row
\* with the answered minutes under the key; rows of another time bucket are neither
\* returned nor touched.
TravelTimeIsCacheFirstPerBucket ==
    RoutedRun =>
        /\ {r \in travel_time_cache : r.time_bucket # time_bucket}
               = {r \in last.travel_before : r.time_bucket # time_bucket}
        /\ \A k \in DOMAIN last.geo :
              LET v == last.geo[k]
                  before == KeyRows(last.travel_before, v)
                  after == KeyRows(travel_time_cache, v)
                  listed == {last.candidates[j].travel_minutes :
                                j \in {i \in DOMAIN last.candidates :
                                          last.candidates[i].venue_id = v}}
              IN  Truthy(venues[v].lat) =>
                    IF \E r \in before : r.fresh
                    THEN /\ v \notin DOMAIN last.answers
                         /\ "routing" \notin last.calls
                         /\ after = before
                         /\ \A m \in listed : \E r \in before : r.fresh /\ r.travel_minutes = m
                         /\ \A r \in before :
                                r.travel_minutes <= last.req.max_travel_minutes * 10
                                    => r.travel_minutes \in listed
                    ELSE /\ v \in DOMAIN last.answers
                         /\ "routing" \in last.calls
                         /\ IF last.answers[v].kind = "ok"
                            THEN /\ after = {[origin_hash |-> make_origin_hash(last.req.origin_lat,
                                                                              last.req.origin_lng),
                                              venue_id |-> v, mode |-> last.req.travel_mode,
                                              time_bucket |-> time_bucket,
                                              travel_minutes |->
                                                  RoundScaled(last.answers[v].seconds, 60, 10),
                                              fresh |-> TRUE]}
                                 /\ listed \subseteq {RoundScaled(last.answers[v].seconds, 60, 10)}
                            ELSE after = {} /\ listed = {}

\* C19 witness: a call answered from the fresh row of the current bucket while the
\* other bucket holds a row with other minutes for the same origin, venue and mode
FreshRowServedBesideOtherBucket ==
    /\ RoutedRun
    /\ "routing" \notin last.calls
    /\ \E c \in Range(last.candidates), r \in travel_time_cache :
           /\ r.venue_id = c.venue_id
           /\ r.time_bucket # time_bucket
           /\ c.travel_minutes # None
           /\ r.travel_minutes # c.travel_minutes

\* C18: when two get_travel_time calls for the same origin, venue, mode and time bucket
\* have both missed the cache and both obtained minutes from the provider, both return
\* their minutes without an exception and one row is stored under the key.
RacingCacheWritesBothReturn ==
    \A c \in DOMAIN inflight, d \in DOMAIN inflight :
        ( /\ c # d
          /\ inflight[c].mode = inflight[d].mode
          /\ inflight[c].pc = "done" /\ inflight[d].pc = "done"
          /\ inflight[c].missed /\ inflight[d].missed
          /\ inflight[c].minutes # None /\ inflight[d].minutes # None )
        => /\ inflight[c].raised = "none"
           /\ inflight[c].result = inflight[c].minutes
           /\ Cardinality(RaceKeyRows(c)) = 1

\* C21: a provider name that no service module knows keeps the service from
\* starting, and no request answered by a running service fails on an unknown provider.
UnknownProviderStopsStartup ==
    /\ service = "running" =>
           /\ settings.EMBEDDING_PROVIDER \in EmbeddingProviders
           /\ settings.ROUTING_PROVIDER \in RoutingProviders
           /\ settings.GEOCODING_PROVIDER \in GeocodingProviders
    /\ last.raised # "unknown_provider"

\* what the retry helper has done so far agrees with: at most 3 attempts, each one
\* after the first preceded by sleeps of 1 s, 2 s; a returned result is the result of
\* the last attempt made and every attempt before it raised; an exception leaves the
\* helper only after 3 raising attempts and is the one the third attempt raised
RetryRunIsBounded ==
    inflight # <<>> =>
        LET r == inflight[1]
            n == Len(r.outcomes)
        IN  /\ n <= 3
            /\ \A i \in 1..(n - 1) : r.outcomes[i].kind = "raise"
            /\ \A i \in 1..(n - 1) : r.slept[i] = (IF i = 1 THEN 1 ELSE 2)
            /\ r.pc = "call" => Len(r.slept) = n
            /\ (r.pc = "done" /\ r.raised = "None") =>
                   /\ n >= 1
                   /\ r.outcomes[n].kind = "ok"
                   /\ r.result = r.outcomes[n].value
                   /\ Len(r.slept) = n - 1
            /\ (r.pc = "done" /\ r.raised # "None") =>
                   /\ n = 3
                   /\ r.outcomes[3].kind = "raise"
                   /\ r.raised = r.outcomes[3].value
                   /\ r.result = "None"

\* C22: the hosted provider's retry helper makes at most 3 attempts, returns the first
\* successful result without another attempt, sleeps 1 s and then 2 s between
\* consecutive attempts, raises the third attempt's exception after three failures,
\* and always comes to an end.
RetryIsBoundedBackoffAndTerminates ==
    /\ []RetryRunIsBounded
    /\ (inflight # <<>>) ~> (inflight # <<>> /\ inflight[1].pc = "done")

\* C22 witness: the third attempt raised another exception than the first two, after
\* sleeps of 1 s and 2 s, and that exception left the helper
ThirdFailureRaised ==
    /\ inflight # <<>>
    /\ inflight[1].pc = "done"
    /\ inflight[1].raised = "TimeoutError"
    /\ Len(inflight[1].outcomes) = 3
    /\ inflight[1].outcomes[1].value = "ServerError"
    /\ inflight[1].slept[1] = 1 /\ inflight[1].slept[2] = 2

\* C23: create_booking does not look at the slot's load again when it inserts: every
\* call that read a load below 1.0 adds its booking, so two overlapping calls for
\* different matches on one slot and date both succeed and leave more pending and
\* confirmed bookings than max_tables_for_two.
OverlappingCreationsAllInsert ==
    \A c \in DOMAIN inflight :
        (inflight[c].pc = "done" /\ inflight[c].http = 201) =>
            /\ inflight[c].booking_id \in DOMAIN bookings
            /\ bookings[inflight[c].booking_id].match_id = inflight[c].payload.match_id
            /\ bookings[inflight[c].booking_id].slot_id = inflight[c].payload.slot_id

\* C23 witness: both calls are done with 201 for different matches, and slot 1, whose
\* capacity is 1, holds two pending or confirmed bookings on the date
TwoCreationsExceedCapacity ==
    /\ DOMAIN inflight = {1, 2}
    /\ \A c \in {1, 2} : inflight[c].pc = "done" /\ inflight[c].http = 201
    /\ inflight[1].payload.match_id # inflight[2].payload.match_id
    /\ slots[1].max_tables_for_two = 1
    /\ CountBooked(1, DateStr(3)) = 2

\* C26: a match has at most one booking that is pending or confirmed, under every
\* interleaving of create_booking, confirm_booking, cancel_booking and webhook calls,
\* and a create_booking for a match that has one answers 409.
OneActiveBookingPerMatch ==
    \A m \in DOMAIN matches :
        Cardinality({b \in DOMAIN bookings :
                        /\ bookings[b].match_id = m
                        /\ bookings[b].status \in {"pending", "confirmed"}}) <= 1

\* C28: a booking is moved to confirmed only from pending; confirm_booking and the
\* payment_intent.succeeded webhook change no booking that is not pending and no match
\* unless they confirm a booking, so a cancelled or refunded booking stays as it is under
\* a late webhook, and the same event delivered again changes neither table.
ConfirmedOnlyFromPending ==
    [][ /\ \A b \in DOMAIN bookings :
              (bookings'[b].status = "confirmed" /\ bookings[b].status # "confirmed")
                  => bookings[b].status = "pending"
        /\ last'.op \in {"confirm_booking", "stripe_webhook"} =>
              /\ DOMAIN bookings' = DOMAIN bookings
              /\ \A b \in DOMAIN bookings :
                     bookings[b].status # "pending" => bookings'[b] = bookings[b]
              /\ matches' # matches =>
                     \E b \in DOMAIN bookings :
                         bookings[b].status = "pending" /\ bookings'[b].status = "confirmed"
        /\ ( /\ last.op = "stripe_webhook" /\ last'.op = "stripe_webhook"
             /\ last.http = 200 /\ last'.http = 200
             /\ last'.req = last.req ) =>
              (bookings' = bookings /\ matches' = matches)
      ]_vars

\* C28 witness: a payment_intent.succeeded event has been answered for the intent of a
\* booking that was cancelled before, and the booking is still cancelled
LateWebhookOnCancelledBooking ==
    /\ last.op = "stripe_webhook"
    /\ last.http = 200
    /\ last.req.type = "payment_intent.succeeded"
    /\ \E b \in DOMAIN bookings :
           /\ bookings[b].stripe_payment_intent_id = last.req.id
           /\ bookings[b].status = "cancelled"

\* C24: in get_available_venues the venues that pass the geo stage are the venues of
\* the request's own availability list that lie within the radius, whether the
\* haversine cache was hit or not.
HaversineCacheKeepsGeoResult ==
    ( /\ last.op = "available" /\ ~last.hit
      /\ last.req.origin_lat # None /\ last.req.origin_lng # None ) =>
        last.geo = prefilter_by_distance(last.avail, last.req.origin_lat,
                                         last.req.travel_mode, last.req.max_travel_minutes)

\* C25: get_available_venues answers no venue that has a blackout covering the
\* requested date, whether the answer was computed or came from the cache.
AvailableAnswersNoBlackedOutVenue ==
    last.op = "available" =>
        \A i \in DOMAIN last.candidates :
            last.candidates[i].venue_id \notin BlackedOut(last.req.date)

\* C27: a suggest call answered from the suggest_results cache returns, for every
\* suggestion, the load factor of the bookings committed so far: no result computed
\* before a booking was committed outlives that booking's cache invalidation.
CachedLoadIsNotOlderThanInvalidation ==
    (last.op = "suggest" /\ last.hit) =>
        \A i \in DOMAIN last.suggestions :
            \A slot_of \in SlotChoices({last.suggestions[i].venue_id},
                                        last.req.date, last.req.time) :
                last.suggestions[i].load_factor =
                    Round4(get_load_factors(<<last.suggestions[i].venue_id>>,
                                            last.req.date, slot_of)
                               [last.suggestions[i].venue_id])

\* the scoring inputs of a request, the origin rounded to 3 decimals or absent
ScoringInputs(req) ==
    <<req.city, req.date, req.time,
      IF HasOrigin(req) THEN <<Round3(req.origin_lat), Round3(req.origin_lng)>> ELSE <<>>,
      req.travel_mode, req.max_travel_minutes, req.stage, req.mood, req.energy, req.budget,
      req.free_text, req.top_n>>

\* C29: a suggest call answered from the suggest_results cache right after the call
\* that stored the entry has the same scoring inputs as that call: city, date, time,
\* origin (rounded to 3 decimals, or absent in both), mode, max minutes, stage, mood,
\* energy, budget, free text and top_n.
HitReturnsResultOfEqualInputs ==
    ( /\ last.op = "suggest" /\ last.hit
      /\ prev.op = "suggest" /\ ~prev.hit /\ prev.up
      /\ prev.status = "ok" /\ prev.suggestions # <<>>
      /\ suggest_cache_key(prev.req) = suggest_cache_key(last.req) ) =>
        ScoringInputs(prev.req) = ScoringInputs(last.req)

\* the venue ids of the candidates that left the travel-time loop of the last call
CandidateIds == {last.candidates[i].venue_id : i \in DOMAIN last.candidates}

\* C30: in a suggest call the ranked venues are among the travel-time survivors, these
\* among the geo survivors, these among the available venues; with an origin every
\* suggestion has travel minutes, at most max_travel_minutes; without an origin the geo
\* and travel-time stages remove nothing and no suggestion has travel minutes.
StagesOnlyNarrow ==
    (last.op = "suggest" /\ ~last.hit /\ last.status = "ok") =>
        /\ SuggestedIds \subseteq CandidateIds
        /\ CandidateIds \subseteq Range(last.geo)
        /\ Range(last.geo) \subseteq Range(last.avail)
        /\ HasOrigin(last.req) =>
               \A i \in DOMAIN last.suggestions :
                   /\ last.suggestions[i].travel_minutes # None
                   /\ last.suggestions[i].travel_minutes <= last.req.max_travel_minutes * 10
        /\ ~HasOrigin(last.req) =>
               /\ last.geo = last.avail
               /\ CandidateIds = Range(last.avail)
               /\ \A i \in DOMAIN last.suggestions :
                      last.suggestions[i].travel_minutes = None

====
